---------------------------- MODULE Spec2Model ----------------------------
(***************************************************************************)
(* State-machine model of the bristle-bot firmware: the BLE role scheduler *)
(* (BLEManager), the RSSI sampler and localisation step, the advertising   *)
(* packet (Comms), the Levy-walk locomotion and the sound sampler.         *)
(*                                                                         *)
(* Every C function is an operator from a world record (one field per      *)
(* program variable) to the world after the call, so that a handler is the *)
(* sequential composition of the calls it makes.  An action applies one    *)
(* handler to the current world and commits the result.                    *)
(***************************************************************************)
EXTENDS Integers, Sequences, FiniteSets, TLC

VARIABLES
    now,              \* millis()
    pc,               \* position of the single thread: "loop" or inside updateSoundLevel
    \* BLEManager
    scanning, lastSwap,
    \* radio driver (ArduinoBLE)
    bleScanning, bleAdvertising, advData, discovered,
    \* Localisation
    rssiBuffers, rssiIndexes, buffersFilled, lastUpdatedTimes,
    smoothedX, smoothedY, lastScanRestart,
    \* Comms
    pos_x, pos_y, heading, battery_level, sound_level,
    \* Orientation
    lastHeading,      \* degrees, in tenths
    magOffset, magScale,  \* CompassModule: per axis, as fractions
    calibData,        \* Calibration.cpp: offset and scale per axis, as fractions
    hook,             \* dashboard: the state of one useWebSocketOptimized instance
    \* Locomotion
    pins, leftState, rightState, previousMillis, interval,
    \* Sound measurer
    lastSample, startTime, record_ready, idx, micOn,
    \* history (not program state)
    log,              \* calls made by the handler that ran last, in order
    samples,          \* per beacon, every RSSI value inserted so far
    flips,            \* clock values of the calls that changed the radio role (last two)
    pause,            \* the current or last series of stopMotors calls: whether it is
                      \* still open, its number of calls, the outputs before it
    stored,           \* per packet field, the value last handed to its update_* call
    args,             \* arguments and random draws of the function that ran last
    result            \* what it returned, where that is not kept in the state

vars == << now, pc, scanning, lastSwap, bleScanning, bleAdvertising, advData,
           discovered, rssiBuffers, rssiIndexes, buffersFilled, lastUpdatedTimes,
           smoothedX, smoothedY, lastScanRestart, pos_x, pos_y, heading,
           battery_level, sound_level, pins, leftState, rightState,
           previousMillis, interval, lastSample, startTime, record_ready, idx,
           micOn, log, samples, flips, pause, lastHeading, stored, args, result,
           magOffset, magScale, calibData, hook >>

World ==
    [ now |-> now, pc |-> pc, scanning |-> scanning, lastSwap |-> lastSwap,
      bleScanning |-> bleScanning, bleAdvertising |-> bleAdvertising,
      advData |-> advData, discovered |-> discovered,
      rssiBuffers |-> rssiBuffers, rssiIndexes |-> rssiIndexes,
      buffersFilled |-> buffersFilled, lastUpdatedTimes |-> lastUpdatedTimes,
      smoothedX |-> smoothedX, smoothedY |-> smoothedY,
      lastScanRestart |-> lastScanRestart,
      pos_x |-> pos_x, pos_y |-> pos_y, heading |-> heading,
      battery_level |-> battery_level, sound_level |-> sound_level,
      pins |-> pins, leftState |-> leftState, rightState |-> rightState,
      previousMillis |-> previousMillis, interval |-> interval,
      lastSample |-> lastSample, startTime |-> startTime,
      record_ready |-> record_ready, idx |-> idx, micOn |-> micOn,
      log |-> log, samples |-> samples, flips |-> flips,
      pause |-> pause, lastHeading |-> lastHeading, stored |-> stored,
      args |-> args, result |-> result,
      magOffset |-> magOffset, magScale |-> magScale, calibData |-> calibData,
      hook |-> hook ]

Commit(w) ==
    /\ now' = w.now /\ pc' = w.pc
    /\ scanning' = w.scanning /\ lastSwap' = w.lastSwap
    /\ bleScanning' = w.bleScanning /\ bleAdvertising' = w.bleAdvertising
    /\ advData' = w.advData /\ discovered' = w.discovered
    /\ rssiBuffers' = w.rssiBuffers /\ rssiIndexes' = w.rssiIndexes
    /\ buffersFilled' = w.buffersFilled /\ lastUpdatedTimes' = w.lastUpdatedTimes
    /\ smoothedX' = w.smoothedX /\ smoothedY' = w.smoothedY
    /\ lastScanRestart' = w.lastScanRestart
    /\ pos_x' = w.pos_x /\ pos_y' = w.pos_y /\ heading' = w.heading
    /\ battery_level' = w.battery_level /\ sound_level' = w.sound_level
    /\ pins' = w.pins /\ leftState' = w.leftState /\ rightState' = w.rightState
    /\ previousMillis' = w.previousMillis /\ interval' = w.interval
    /\ lastSample' = w.lastSample /\ startTime' = w.startTime
    /\ record_ready' = w.record_ready /\ idx' = w.idx /\ micOn' = w.micOn
    /\ log' = w.log /\ samples' = w.samples /\ flips' = w.flips
    /\ pause' = w.pause
    /\ lastHeading' = w.lastHeading /\ stored' = w.stored
    /\ args' = w.args /\ result' = w.result
    /\ magOffset' = w.magOffset /\ magScale' = w.magScale
    /\ calibData' = w.calibData
    /\ hook' = w.hook

-----------------------------------------------------------------------------
(* Program constants *)

SWAP_INTERVAL == 1000
\* variant: the build that scans by polling BLE.available()
CallbackScanningOff == FALSE
CALLBACK_SCANNING_MODE == TRUE
NUM_BEACONS == 3
BEACON_NAMES == << "RasPi1", "RasPi2", "RasPi3" >>
\* in millimetres
BEACON_POSITIONS == << <<0, 1000>>, <<-750, 0>>, <<750, 0>> >>
maxResidual == 1500                \* 1.5 m, in millimetres
windowSize == 7
ALPHA_TENTHS == 4                  \* ALPHA = 0.4
POSITION_RANGE == << <<-2, 2>>, <<-2, 2>> >>   \* as map() receives it: long
NAN == -999999                     \* the NaN that smoothedX, smoothedY start as
motorRight == 2
motorLeft == 3
minWalkTime == 500
maxWalkTime == 2000
SAMPLES == 800
SAMPLE_MILLIS == 2000
declinationAngle == 135            \* setDeclinationAngle(13.5), in tenths of a degree

Beacons == 0 .. (NUM_BEACONS - 1)

-----------------------------------------------------------------------------
(* Bounds of the model *)

MaxTime == 2200        \* no handler is entered after this clock value
MaxWalkTime == 4500    \* the same, where locomotion and sound sampling run
MaxSamples == 9        \* RSSI samples recorded or queued in one behaviour
MaxPending == 3        \* discoveries queued in the BLE stack at once
LateMargin == 300      \* SpecLate starts this many ms before the clock reaches 2^32
MaxAdvertise == 2      \* advertiseBLE() calls in one behaviour of the packet encoder
MaxUpdates == 13       \* smoothing updates with the same solved position
MaxResidual == 3000    \* largest residual handed to the confidence formula, in mm
MaxSweep == 2          \* magnetometer samples of one calibration sweep

TickSteps == {250, 500}
\* time spent in the current role when SpecLate starts
LateDwells == {50, 900}
RSSIValues == {-80, -50}
PeerNames == {"RasPi1", "RasPi2", "RasPi3", "Other"}
\* outputs of the position solver, in tenths of a metre
\* and the residual that comes with each, in millimetres
SolvedPoints == { <<-15, 5, 200>>, <<12, -3, 1200>> }
\* the solver output used when updateLocalisation() is driven on its own
LocPoints == { <<-15, 5, 200>>, <<-15, 5, 1200>> }
\* draws of random(100), one per branch of levyWalk
RandomDraws == {0, 60, 80}
\* draws of the walk intervals: forward, and turn
WalkIntervals == {minWalkTime, maxWalkTime - 1}
TurnIntervals == {minWalkTime, 999}
\* sample counts the microphone driver hands to the callback
BufLens == {400, 1600}
\* iterations of the wait loop taken in one step
WaitSteps == {250}
\* int16_t samples
SampleValues == {-32768, -255, -1, 0, 100, 256, 32767}
\* lengths of the first run of equal samples in recording_buf
RunLengths == {1, 400, 799}
\* recording_buf as two runs << value, count >> of equal samples
RecordingBufs ==
    { << << a, n >>, << b, SAMPLES - n >> >> :
          a \in SampleValues, b \in SampleValues, n \in RunLengths }
\* recording_buf of the captures of a walk: silence, and full scale
CapturedBufs == { << << 0, 400 >>, << 0, SAMPLES - 400 >> >>,
                  << << 32767, 400 >>, << -32768, SAMPLES - 400 >> >> }
\* positions handed to sendPosition(), in tenths of a metre: all of POSITION_RANGE
PositionTenths == (POSITION_RANGE[1][1] * 10) .. (POSITION_RANGE[1][2] * 10)
\* raw magnetometer samples << x, y, z >> of a calibration sweep: the corners of
\* a box, and the all-zero reading calibrate() skips
SweepSamples ==
    { << x, y, z >> : x \in {-200, 150}, y \in {-200, 150}, z \in {-200, 150} }
        \cup { << 0, 0, 0 >> }
\* the sweeps: every sequence of at most MaxSweep samples
Sweeps == UNION { [1 .. n -> SweepSamples] : n \in 0 .. MaxSweep }
\* the sweep of setupOrientation() at boot
BootSweep == << << -200, -200, -200 >>, << 150, 150, 150 >> >>
\* raw samples handed to readHeading(): on the axes and the diagonals
HeadingSamples ==
    { << x, y, 0 >> : x \in {-200, 0, 200}, y \in {-200, 0, 200} }
\* atan2(my, mx) * 180 / PI over all magnetometer samples, in tenths of a degree
AtanTenths == -1800 .. 1800
\* The smoothing step on its own.  The unit of length is chosen so that twelve
\* blends are exact: start and target differ by a multiple of 5^12 units.
SmoothUnit == 244140625
SmoothTargets == { <<0, 0>>, <<7000000, -3000000>> }
SmoothOffsets == { <<SmoothUnit, -SmoothUnit>>, <<-SmoothUnit, 0>>, <<0, SmoothUnit>>,
                   <<SmoothUnit, SmoothUnit>>, <<-SmoothUnit, -SmoothUnit>>,
                   <<SmoothUnit, 0>> }
\* Surveys: the beacon coordinates from which noise-free distances are taken,
\* those compiled into the solver and those of the reference test
SurveyBeacons ==
    [ compiled |-> BEACON_POSITIONS,
      reference |-> << <<0, 0>>, <<3000, 0>>, <<1500, 4000>> >> ]
\* true positions of the bot, in millimetres
TruePointsX == {-1500, -1000, -500, -250, 500, 1000, 1500, 2000}
TruePointsY == {-800, -400, -200, 200, 400, 800, 1000, 1200}
\* values handed to the update_* calls of Comms
FieldBytes == {7, 200}

-----------------------------------------------------------------------------
(* Arithmetic of the C types *)

\* A uint32_t is kept as its residue nearest zero: r >= 0 stands for r and
\* r < 0 for 2^32 + r.  Sums and differences of residues are then sums and
\* differences mod 2^32 (all values of the model stay far inside +-2^31), and
\* the unsigned order puts every negative residue above every other one.
U32Add(a, b) == a + b
U32Sub(a, b) == a - b
U32Less(a, b) == IF (a < 0) = (b < 0) THEN a < b ELSE b < 0

\* C integer division truncates toward zero
CDiv(a, b) == IF a >= 0 THEN a \div b ELSE -((-a) \div b)

\* conversion to uint8_t
U8(v) == v % 256

\* Arduino abs() and constrain(): macros, evaluated in int
abs(x) == IF x > 0 THEN x ELSE -x

constrain(amt, low, high) ==
    IF amt < low THEN low ELSE IF amt > high THEN high ELSE amt

INT32_MAX == 2147483647

\* Arduino map(): long arithmetic
map(x, in_min, in_max, out_min, out_max) ==
    CDiv((x - in_min) * (out_max - out_min), in_max - in_min) + out_min

isnan(v) == v = NAN

\* Arduino random(lo, hi): any of lo .. hi - 1
random(lo, hi) == lo .. (hi - 1)

\* quotient and remainder of a * b by c, computed without forming a * b
\* (a small, b and c below 2^29)
RECURSIVE MulDivQR(_, _, _)
MulDivQR(a, b, c) ==
    IF a = 0 THEN [q |-> 0, r |-> 0]
    ELSE LET h == MulDivQR(a \div 2, b, c)
             odd == a % 2 = 1
             d == 2 * h.r + (IF odd THEN b % c ELSE 0)
         IN  [q |-> 2 * h.q + (IF odd THEN b \div c ELSE 0) + d \div c,
              r |-> d % c]

RECURSIVE GCD(_, _)
GCD(a, b) == IF b = 0 THEN a ELSE GCD(b, a % b)

\* largest r in lo .. hi with r * r <= n
RECURSIVE IsqrtIn(_, _, _)
IsqrtIn(n, lo, hi) ==
    IF lo = hi THEN lo
    ELSE LET mid == (lo + hi + 1) \div 2
         IN  IF mid * mid <= n THEN IsqrtIn(n, mid, hi) ELSE IsqrtIn(n, lo, mid - 1)

\* sqrt() in fixed point: lengths are whole millimetres
Isqrt(n) == IsqrtIn(n, 0, 46340)

Hypot(dx, dy) == Isqrt(dx * dx + dy * dy)

\* exact square root of a perfect square
Sqrt(n) == CHOOSE r \in 0 .. n : r * r = n

Called(w, what) == [w EXCEPT !.log = Append(@, what)]

delay(w, ms) == [w EXCEPT !.now = U32Add(@, ms)]

-----------------------------------------------------------------------------
(* Radio driver, as the firmware uses it *)

BLE_scan(w) == [Called(w, "BLE.scan") EXCEPT !.bleScanning = TRUE]

BLE_stopScan(w) == [Called(w, "BLE.stopScan") EXCEPT !.bleScanning = FALSE]

BLE_setAdvertisingData(w, data) ==
    [Called(w, "BLE.setAdvertisingData") EXCEPT !.advData = data]

\* BLE.advertise() reports failure by returning false
BLE_advertise(w, ok) == [Called(w, "BLE.advertise") EXCEPT !.bleAdvertising = ok]

BLE_stopAdvertise(w) ==
    [Called(w, "BLE.stopAdvertise") EXCEPT !.bleAdvertising = FALSE]

-----------------------------------------------------------------------------
(* Comms *)

create_manuf_data_packet(w) ==
    << 255, 255, w.pos_x, w.pos_y, w.heading, w.battery_level, w.sound_level >>

set_manuf_data(w) == create_manuf_data_packet(w)

advertiseBLE(w, ok) ==
    LET data == set_manuf_data(w)
        w1 == Called(w, "set_manuf_data")
    IN  BLE_advertise(BLE_setAdvertisingData(w1, data), ok)

stopAdvertiseBLE(w) == BLE_stopAdvertise(w)

update_position(w, x, y) ==
    [w EXCEPT !.pos_x = x, !.pos_y = y, !.stored.x = x, !.stored.y = y]

update_heading(w, h) == [w EXCEPT !.heading = h, !.stored.heading = h]

update_battery_level(w, level) ==
    [w EXCEPT !.battery_level = level, !.stored.battery = level]

\* variant: the new level is written into the payload the radio holds
update_sound_Republish(w, level) ==
    LET w1 == [w EXCEPT !.sound_level = level, !.stored.sound = level]
    IN  IF w1.advData = << >> THEN w1
        ELSE [w1 EXCEPT !.advData = create_manuf_data_packet(w1)]

update_sound(w, level) == [w EXCEPT !.sound_level = level, !.stored.sound = level]

\* The build without a heading byte (Communication.cpp)
create_manuf_data_packet_short(w) ==
    << 255, 255, w.pos_x, w.pos_y, w.battery_level, w.sound_level >>

\* its advertiseBLE() increments pos_x before it encodes
advertiseBLE_short(w, ok) ==
    LET w1 == [w EXCEPT !.pos_x = U8(@ + 1)]
        data == create_manuf_data_packet_short(w1)
        w2 == Called(w1, "set_manuf_data")
    IN  BLE_advertise(BLE_setAdvertisingData(w2, data), ok)

-----------------------------------------------------------------------------
(* Localisation: RSSI sampler *)

\* variant: the cursor is advanced before the value is written
insertRSSI_WriteAfterAdvance(w, i, rssi) ==
    LET k == w.rssiIndexes[i]
        k2 == (k + 1) % windowSize
    IN  [w EXCEPT !.rssiBuffers[i][k2] = rssi,
                  !.rssiIndexes[i] = k2,
                  !.buffersFilled[i] = IF k2 = 0 THEN TRUE ELSE @,
                  !.samples[i] = Append(@, rssi)]

insertRSSI(w, i, rssi) ==
    LET k == w.rssiIndexes[i]
        k2 == (k + 1) % windowSize
    IN  [w EXCEPT !.rssiBuffers[i][k] = rssi,
                  !.rssiIndexes[i] = k2,
                  !.buffersFilled[i] = IF k2 = 0 THEN TRUE ELSE @,
                  !.samples[i] = Append(@, rssi)]

RECURSIVE SumSlots(_, _)
SumSlots(buf, count) ==
    IF count = 0 THEN 0 ELSE buf[count - 1] + SumSlots(buf, count - 1)

\* variant: the fill flag is ignored, the cursor alone gives the count
avgRSSI_IgnoreFilled(w, i) ==
    LET count == w.rssiIndexes[i]
    IN  IF count = 0
        THEN [num |-> -100, den |-> 1]
        ELSE [num |-> SumSlots(w.rssiBuffers[i], count), den |-> count]

\* variant: no early return, an empty buffer is averaged over the whole window
avgRSSI_NoSentinel(w, i) ==
    LET count == IF w.buffersFilled[i] THEN windowSize ELSE w.rssiIndexes[i]
    IN  IF count = 0
        THEN [num |-> SumSlots(w.rssiBuffers[i], windowSize), den |-> windowSize]
        ELSE [num |-> SumSlots(w.rssiBuffers[i], count), den |-> count]

\* float(sum) / count, kept as the fraction num/den
avgRSSI(w, i) ==
    LET count == IF w.buffersFilled[i] THEN windowSize ELSE w.rssiIndexes[i]
    IN  IF count = 0
        THEN [num |-> -100, den |-> 1]
        ELSE [num |-> SumSlots(w.rssiBuffers[i], count), den |-> count]

deviceDiscoveredCallback(w, name, rssi) ==
    LET hit == { i \in Beacons : BEACON_NAMES[i + 1] = name }
    IN  IF hit = {} THEN w
        ELSE LET i == CHOOSE j \in hit : \A k \in hit : j <= k
             IN  [insertRSSI(w, i, rssi) EXCEPT !.lastUpdatedTimes[i] = w.now]

\* BLE.poll(): the stack hands every queued discovery to the registered handler
RECURSIVE BLE_poll(_)
BLE_poll(w) ==
    IF w.discovered = << >> THEN w
    ELSE LET d == Head(w.discovered)
         IN  BLE_poll(deviceDiscoveredCallback(
                 [w EXCEPT !.discovered = Tail(@)], d.name, d.rssi))

\* BLE.available(): the next queued discovery, if any, handled in place
BLE_available(w) ==
    IF w.discovered = << >> THEN w
    ELSE LET d == Head(w.discovered)
             w1 == [w EXCEPT !.discovered = Tail(@)]
             hit == { i \in Beacons : BEACON_NAMES[i + 1] = d.name }
         IN  IF hit = {} THEN w1
             ELSE LET i == CHOOSE j \in hit : \A k \in hit : j <= k
                  IN  [insertRSSI(w1, i, d.rssi) EXCEPT !.lastUpdatedTimes[i] = w.now]

\* variant: one beacon with a sample is enough
ready_AnyBeacon(w) ==
    \E i \in Beacons :
        (IF w.buffersFilled[i] THEN windowSize ELSE w.rssiIndexes[i]) # 0

\* the 'ready' flag of updateLocalisation
ready(w) ==
    \A i \in Beacons :
        (IF w.buffersFilled[i] THEN windowSize ELSE w.rssiIndexes[i]) # 0

sendPosition(w, x, y) ==
    LET x_pos == U8(map(CDiv(x, 10), POSITION_RANGE[1][1], POSITION_RANGE[1][2], 0, 255))
        y_pos == U8(map(CDiv(y, 10), POSITION_RANGE[2][1], POSITION_RANGE[2][2], 0, 255))
    IN  update_position(w, x_pos, y_pos)

\* The scan-restart branch taken when CALLBACK_SCANNING_MODE is false
pollingScan(w) ==
    LET t == w.now
        w1 == IF U32Less(500, U32Sub(t, w.lastScanRestart))
              THEN [BLE_scan(BLE_stopScan(w)) EXCEPT !.lastScanRestart = t]
              ELSE w
    IN  BLE_available(w1)

-----------------------------------------------------------------------------
(* Localisation: position solver, in fixed point.  Lengths are in millimetres, *)
(* weights in thousandths; every quotient is truncated.                        *)

\* weights[i] = 1.0 / (d[i] * d[i] + 1e-6)
weights(d) == [i \in 1 .. 3 |-> CDiv(1000000000, d[i] * d[i] + 1)]

\* the contribution of beacon i to (gradX, gradY) at the estimate (x0, y0)
GradTerm(i, x0, y0, d, w) ==
    LET dx == x0 - BEACON_POSITIONS[i][1]
        dy == y0 - BEACON_POSITIONS[i][2]
        ri == Hypot(dx, dy)
        a == CDiv(w[i] * (ri - d[i]), 1000)
    IN  IF ri = 0 THEN << 0, 0 >>
        ELSE << CDiv(a * dx, ri), CDiv(a * dy, ri) >>

\* the remaining iterations of the descent loop
RECURSIVE Descend(_, _, _, _, _)
Descend(iter, x0, y0, d, w) ==
    IF iter = 0 THEN << x0, y0 >>
    ELSE LET g1 == GradTerm(1, x0, y0, d, w)
             g2 == GradTerm(2, x0, y0, d, w)
             g3 == GradTerm(3, x0, y0, d, w)
             gradX == g1[1] + g2[1] + g3[1]
             gradY == g1[2] + g2[2] + g3[2]
         IN  Descend(iter - 1, x0 - CDiv(gradX, 10), y0 - CDiv(gradY, 10), d, w)

\* est - d[i] at the solved point
RangeError(i, x, y, d) ==
    Hypot(x - BEACON_POSITIONS[i][1], y - BEACON_POSITIONS[i][2]) - d[i]

trilateration(d) ==
    LET pt == Descend(10, 0, 300, d, weights(d))
        e1 == RangeError(1, pt[1], pt[2], d)
        e2 == RangeError(2, pt[1], pt[2], d)
        e3 == RangeError(3, pt[1], pt[2], d)
    IN  [x |-> pt[1], y |-> pt[2],
         residual |-> Isqrt(e1 * e1 + e2 * e2 + e3 * e3)]

\* variant: the lower clamp is missing
confidence_NoFloor(residual) ==
    LET c == maxResidual - residual
    IN  IF c > maxResidual THEN maxResidual ELSE c

\* max(0.0, min(1.0, 1.0 - residual / maxResidual)), as a multiple of
\* 1/maxResidual: the value is confidence(residual) / maxResidual
confidence(residual) ==
    LET c == maxResidual - residual
        lo == IF c > maxResidual THEN maxResidual ELSE c
    IN  IF lo < 0 THEN 0 ELSE lo

\* variant: the new position is blended in with weight 0.2
smoothing_Slow(w, x, y) ==
    IF isnan(w.smoothedX) \/ isnan(w.smoothedY)
    THEN [w EXCEPT !.smoothedX = x, !.smoothedY = y]
    ELSE [w EXCEPT !.smoothedX = (2 * x + 8 * @) \div 10,
                   !.smoothedY = (2 * y + 8 * @) \div 10]

\* variant: the first position is blended with a previous position of zero
smoothing_NoBootstrap(w, x, y) ==
    LET px == IF isnan(w.smoothedX) \/ isnan(w.smoothedY) THEN 0 ELSE w.smoothedX
        py == IF isnan(w.smoothedX) \/ isnan(w.smoothedY) THEN 0 ELSE w.smoothedY
    IN  [w EXCEPT !.smoothedX = (ALPHA_TENTHS * x + (10 - ALPHA_TENTHS) * px) \div 10,
                  !.smoothedY = (ALPHA_TENTHS * y + (10 - ALPHA_TENTHS) * py) \div 10]

\* the smoothing step of updateLocalisation, in fixed point: the blend is
\* exact whenever the distance to the new position is a multiple of 10
smoothing(w, x, y) ==
    IF isnan(w.smoothedX) \/ isnan(w.smoothedY)
    THEN [w EXCEPT !.smoothedX = x, !.smoothedY = y]
    ELSE [w EXCEPT !.smoothedX = (ALPHA_TENTHS * x + (10 - ALPHA_TENTHS) * @) \div 10,
                   !.smoothedY = (ALPHA_TENTHS * y + (10 - ALPHA_TENTHS) * @) \div 10]

\* variant: no return on a false gate
updateLocalisation_NoGate(w, p) ==
    LET w1 == Called(w, "updateLocalisation")
        w2 == IF CALLBACK_SCANNING_MODE THEN BLE_poll(w1) ELSE pollingScan(w1)
        w3 == smoothing(Called(w2, "trilateration"), p[1], p[2])
    IN  sendPosition(w3, w3.smoothedX, w3.smoothedY)

\* variant: the queued discoveries are handled after the gate is evaluated
updateLocalisation_GateFirst(w, p) ==
    LET w1 == Called(w, "updateLocalisation")
    IN  IF ~ready(w1) THEN BLE_poll(w1)
        ELSE LET w3 == smoothing(Called(BLE_poll(w1), "trilateration"), p[1], p[2])
             IN  sendPosition(w3, w3.smoothedX, w3.smoothedY)

\* variant: a solve of low confidence is dropped
updateLocalisation_ConfidenceGated(w, p) ==
    LET w1 == Called(w, "updateLocalisation")
        w2 == IF CALLBACK_SCANNING_MODE THEN BLE_poll(w1) ELSE pollingScan(w1)
    IN  IF ~ready(w2) THEN w2
        ELSE LET c == confidence(p[3])
                 w3 == [Called(w2, "trilateration") EXCEPT
                           !.result = [x |-> p[1], y |-> p[2], residual |-> p[3],
                                       confidence |-> c]]
             IN  IF 2 * c >= maxResidual
                 THEN LET w4 == Called(smoothing(w3, p[1], p[2]), "report")
                      IN  sendPosition(w4, w4.smoothedX, w4.smoothedY)
                 ELSE w3

\* p is what trilateration() returns for the averaged RSSI values: the solver
\* works in floating point and is not computed here, any of SolvedPoints may
\* come out.  Positions are in tenths of a metre.  "report" is the position
\* printed on the serial port.
updateLocalisation(w, p) ==
    LET w1 == Called(w, "updateLocalisation")
        w2 == IF CALLBACK_SCANNING_MODE THEN BLE_poll(w1) ELSE pollingScan(w1)
    IN  IF ~ready(w2) THEN w2
        ELSE LET c == confidence(p[3])
                 w3 == [Called(w2, "trilateration") EXCEPT
                           !.result = [x |-> p[1], y |-> p[2], residual |-> p[3],
                                       confidence |-> c]]
                 w4 == smoothing(w3, p[1], p[2])
                 w5 == IF 2 * c >= maxResidual THEN Called(w4, "report") ELSE w4
             IN  sendPosition(w5, w5.smoothedX, w5.smoothedY)

-----------------------------------------------------------------------------
(* Magnetometer calibration.  A float is kept as a fraction num/den of
   integers in lowest terms, den > 0; den = 0 stands for what a division by
   zero leaves: an infinity (num = 1 or -1) or NaN (num = 0). *)

Frac(n, d) ==
    IF d = 0 THEN [num |-> (IF n > 0 THEN 1 ELSE IF n < 0 THEN -1 ELSE 0), den |-> 0]
    ELSE LET g == GCD(IF n < 0 THEN -n ELSE n, IF d < 0 THEN -d ELSE d)
         IN  IF d > 0 THEN [num |-> n \div g, den |-> d \div g]
             ELSE [num |-> (-n) \div g, den |-> (-d) \div g]

isfinite(f) == f.den # 0

\* Arduino min() and max(): macros
min(a, b) == IF a < b THEN a ELSE b

max(a, b) == IF a > b THEN a ELSE b

\* the min/max updates of a sweep; skipZero: the `continue` on an all-zero
\* reading
RECURSIVE sweepExtrema(_, _, _)
sweepExtrema(ext, sweep, skipZero) ==
    IF sweep = << >> THEN ext
    ELSE LET m == Head(sweep)
         IN  IF skipZero /\ m[1] = 0 /\ m[2] = 0 /\ m[3] = 0
             THEN sweepExtrema(ext, Tail(sweep), skipZero)
             ELSE sweepExtrema([lo |-> [k \in 1 .. 3 |-> min(ext.lo[k], m[k])],
                                hi |-> [k \in 1 .. 3 |-> max(ext.hi[k], m[k])]],
                               Tail(sweep), skipZero)

\* CompassModule::calibrate() over the samples the sweep reads; deltaX and
\* maxDelta are kept doubled, which leaves their quotient as it is
calibration(sweep) ==
    LET e == sweepExtrema([lo |-> << 32767, 32767, 32767 >>,
                           hi |-> << -32767, -32767, -32767 >>], sweep, TRUE)
        delta == [k \in 1 .. 3 |-> e.hi[k] - e.lo[k]]
        maxDelta == max(max(delta[1], delta[2]), delta[3])
    IN  [magOffset |-> [k \in 1 .. 3 |-> Frac(e.hi[k] + e.lo[k], 2)],
         magScale |-> [k \in 1 .. 3 |->
                          IF delta[k] = 0 THEN Frac(1, 1)
                          ELSE Frac(maxDelta, delta[k])]]

calibrate(w, sweep) ==
    [Called(w, "calibrate") EXCEPT
        !.magOffset = calibration(sweep).magOffset,
        !.magScale = calibration(sweep).magScale]

\* calibrateMagnetometer() of Calibration.cpp
calibrateMagnetometer(w, sweep) ==
    LET e == sweepExtrema([lo |-> << 9999, 9999, 9999 >>,
                           hi |-> << -9999, -9999, -9999 >>], sweep, FALSE)
    IN  [Called(w, "calibrateMagnetometer") EXCEPT
            !.calibData =
                [offset |-> [k \in 1 .. 3 |-> Frac(e.hi[k] + e.lo[k], 2)],
                 scale |-> [k \in 1 .. 3 |-> Frac(2, e.hi[k] - e.lo[k])]]]

\* CompassModule::applyCalibration(): (m - offset) * scale per axis
applyCalibration(w, m) ==
    [k \in 1 .. 3 |->
        Frac((m[k] * w.magOffset[k].den - w.magOffset[k].num) * w.magScale[k].num,
             w.magOffset[k].den * w.magScale[k].den)]

\* sign of a fraction
Sign(f) == IF f.num = 0 THEN 0 ELSE IF f.num > 0 THEN 1 ELSE -1

\* |y| - |x| of two finite fractions, as a sign
CmpAbs(y, x) ==
    LET a == y.num * x.den
        b == x.num * y.den
        aa == IF a < 0 THEN -a ELSE a
        bb == IF b < 0 THEN -b ELSE b
    IN  IF aa = bb THEN 0 ELSE IF aa > bb THEN 1 ELSE -1

\* atan2(y, x) * 180 / PI in tenths of a degree: the exact value on the axes
\* and the diagonals, any angle of the octant elsewhere
atan2(y, x) ==
    LET sy == Sign(y)
        sx == Sign(x)
        c == CmpAbs(y, x)
    IN  IF sy = 0 THEN (IF sx < 0 THEN {1800} ELSE {0})
        ELSE IF sx = 0 THEN {sy * 900}
        ELSE IF c = 0 THEN {sy * (IF sx > 0 THEN 450 ELSE 1350)}
        ELSE LET lo == IF sx > 0 THEN (IF c < 0 THEN 0 ELSE 450)
                       ELSE (IF c < 0 THEN 1350 ELSE 900)
             IN  { sy * a : a \in (lo + 1) .. (lo + 449) }

-----------------------------------------------------------------------------
(* Orientation.  Angles are in tenths of a degree; a is atan2(my, mx) in degrees *)

readHeading(a) ==
    LET h0 == a + declinationAngle
        h1 == IF h0 < 0 THEN h0 + 3600 ELSE h0
    IN  IF h1 >= 3600 THEN h1 - 3600 ELSE h1

\* map() takes long arguments: the float heading is truncated to whole degrees,
\* and update_heading() takes the long result as a uint8_t
displayHeading(w, a) ==
    LET h == readHeading(a) + 900
        w1 == update_heading(w, U8(map(CDiv(h, 10), 0, 360, 0, 255)))
    IN  [w1 EXCEPT !.lastHeading = h, !.args = [op |-> "displayHeading", a |-> a]]

getHeading(w) == w.lastHeading

-----------------------------------------------------------------------------
(* BLEManager *)

\* variant: advertising starts before the position is updated
swapClientServer_AdvertiseFirst(w, p, ok) ==
    LET t == w.now
        w0 == [w EXCEPT !.log = << "swapClientServer" >>]
    IN  IF U32Less(t, U32Add(w.lastSwap, SWAP_INTERVAL))
        THEN w0
        ELSE LET w1 == IF ~w.scanning
                       THEN [BLE_scan(delay(stopAdvertiseBLE(w0), 50))
                                EXCEPT !.scanning = TRUE]
                       ELSE [updateLocalisation(
                                advertiseBLE(delay(BLE_stopScan(w0), 50), ok), p)
                                EXCEPT !.scanning = FALSE]
             IN  [w1 EXCEPT !.lastSwap = t,
                            !.flips = IF @ = << >> THEN << t >> ELSE << @[Len(@)], t >>]

swapClientServer(w, p, ok) ==
    LET t == w.now
        w0 == [w EXCEPT !.log = << "swapClientServer" >>]
    IN  IF U32Less(t, U32Add(w.lastSwap, SWAP_INTERVAL))
        THEN w0
        ELSE LET w1 == IF ~w.scanning
                       THEN [BLE_scan(delay(stopAdvertiseBLE(w0), 50))
                                EXCEPT !.scanning = TRUE]
                       ELSE [advertiseBLE(
                                updateLocalisation(delay(BLE_stopScan(w0), 50), p), ok)
                                EXCEPT !.scanning = FALSE]
             IN  [w1 EXCEPT !.lastSwap = t,
                            !.flips = IF @ = << >> THEN << t >> ELSE << @[Len(@)], t >>]

-----------------------------------------------------------------------------
(* Locomotion *)

digitalWrite(w, pin, v) == [w EXCEPT !.pins[pin] = v]

digitalRead(w, pin) == w.pins[pin]

\* the outputs as the pair (right motor, left motor)
Outputs(w) == << w.pins[motorRight], w.pins[motorLeft] >>

\* history: a motor write by the walk ends a series of stopMotors calls
WalkWrites(w) == [w EXCEPT !.pause.active = FALSE, !.pause.depth = 0]

moveForward(w) ==
    digitalWrite(digitalWrite(Called(WalkWrites(w), "moveForward"),
                              motorRight, TRUE), motorLeft, TRUE)

turnLeft(w) ==
    digitalWrite(digitalWrite(Called(WalkWrites(w), "turnLeft"),
                              motorRight, TRUE), motorLeft, FALSE)

turnRight(w) ==
    digitalWrite(digitalWrite(Called(WalkWrites(w), "turnRight"),
                              motorRight, FALSE), motorLeft, TRUE)

\* powerLawRandomInterval(t_min, t_max, 1.5) when random(1, 10000) returns k.
\* With mu = 1.5 the exponent is -2 and pow(t_min / t_max, mu - 1) is the
\* square root sn/sd of the ratio, so that
\*     t = t_min * (1 - u + u * sn/sd) ^ -2,   u = k / 10000,
\* which is t_min * (d/n)^2 for n = 10000 * sd - k * sd + k * sn, d = 10000 * sd.
\* The result is computed exactly and truncated as the cast to long does.
powerLawRandomInterval_PlusExponent(t_min, t_max, k) ==
    LET g == GCD(t_min, t_max)
        sn == Sqrt(t_min \div g)
        sd == Sqrt(t_max \div g)
        n == 10000 * sd - k * sd + k * sn
        d == 10000 * sd
    IN  MulDivQR(t_min, n * n, d * d).q

powerLawRandomInterval(t_min, t_max, k) ==
    LET g == GCD(t_min, t_max)
        sn == Sqrt(t_min \div g)
        sd == Sqrt(t_max \div g)
        n == 10000 * sd - k * sd + k * sn
        d == 10000 * sd
    IN  MulDivQR(t_min, d * d, n * n).q

\* the interval levyWalk() stores: k and t are the draws of random(1, 10000)
\* and random(minWalkTime, 1000)
levyWalkInterval(r, k, t) ==
    IF r < 60 THEN powerLawRandomInterval(minWalkTime, maxWalkTime, k) ELSE t

\* r is random(100); iv is the interval drawn for the action taken:
\* powerLawRandomInterval(minWalkTime, maxWalkTime, 1.5) or random(minWalkTime, 1000)
levyWalk(w, r, iv) ==
    IF r < 60 THEN [moveForward(w) EXCEPT !.interval = iv]
    ELSE IF r < 80 THEN [turnLeft(w) EXCEPT !.interval = iv]
    ELSE [turnRight(w) EXCEPT !.interval = iv]

\* variant: the next action is taken once half of the interval has passed
updateLocomotion_HalfInterval(w, r, iv) ==
    LET currentMillis == w.now
        w0 == [w EXCEPT !.log = << "updateLocomotion" >>]
    IN  IF ~U32Less(2 * U32Sub(currentMillis, w.previousMillis), w.interval)
        THEN levyWalk([w0 EXCEPT !.previousMillis = currentMillis], r, iv)
        ELSE w0

updateLocomotion(w, r, iv) ==
    LET currentMillis == w.now
        w0 == [w EXCEPT !.log = << "updateLocomotion" >>]
    IN  IF ~U32Less(U32Sub(currentMillis, w.previousMillis), w.interval)
        THEN levyWalk([w0 EXCEPT !.previousMillis = currentMillis], r, iv)
        ELSE w0

stopMotors(w) ==
    LET w1 == [Called(w, "stopMotors") EXCEPT
                  !.pause = IF @.active
                            THEN [@ EXCEPT !.depth = @ + 1]
                            ELSE [active |-> TRUE, depth |-> 1, pre |-> Outputs(w)]]
        w2 == [w1 EXCEPT !.leftState = digitalRead(w1, motorLeft),
                         !.rightState = digitalRead(w1, motorRight)]
    IN  digitalWrite(digitalWrite(w2, motorRight, FALSE), motorLeft, FALSE)

\* variant: the saved states are written to the wrong motors
resumeMotors_Swapped(w) ==
    LET w1 == [Called(w, "resumeMotors") EXCEPT !.pause.active = FALSE]
    IN  digitalWrite(digitalWrite(w1, motorRight, w1.leftState),
                     motorLeft, w1.rightState)

\* variant: resuming restarts the walk timer
resumeMotors_RestartsTimer(w) ==
    LET w1 == [Called(w, "resumeMotors") EXCEPT !.pause.active = FALSE,
                                                !.previousMillis = w.now]
    IN  digitalWrite(digitalWrite(w1, motorRight, w1.rightState),
                     motorLeft, w1.leftState)

resumeMotors(w) ==
    LET w1 == [Called(w, "resumeMotors") EXCEPT !.pause.active = FALSE]
    IN  digitalWrite(digitalWrite(w1, motorRight, w1.rightState),
                     motorLeft, w1.leftState)

-----------------------------------------------------------------------------
(* Sound measurer *)

Mic_resume(w) == [Called(w, "Mic.resume") EXCEPT !.micOn = TRUE]

Mic_pause(w) == [Called(w, "Mic.pause") EXCEPT !.micOn = FALSE]

\* the microphone driver delivers buf_len samples; the sample values are not
\* kept, only how far recording_buf is filled
audio_rec_callback(w, buf_len) ==
    IF w.idx + buf_len >= SAMPLES
    THEN [w EXCEPT !.idx = 0, !.record_ready = TRUE]
    ELSE [w EXCEPT !.idx = @ + buf_len]

\* variant: the capture starts without stopping the motors
soundBegin_NoStop(w) ==
    LET w0 == [w EXCEPT !.log = << "updateSoundLevel" >>]
    IN  IF U32Less(U32Sub(w.now, w.lastSample), SAMPLE_MILLIS)
        THEN w0
        ELSE LET w1 == Mic_resume(delay([w0 EXCEPT !.lastSample = w.now], 200))
             IN  [w1 EXCEPT !.startTime = w1.now, !.pc = "wait"]

\* variant: the gate opens after half of SAMPLE_MILLIS
soundBegin_HalfPeriod(w) ==
    LET w0 == [w EXCEPT !.log = << "updateSoundLevel" >>]
    IN  IF U32Less(2 * U32Sub(w.now, w.lastSample), SAMPLE_MILLIS)
        THEN w0
        ELSE LET w1 == Mic_resume(delay(stopMotors([w0 EXCEPT !.lastSample = w.now]), 200))
             IN  [w1 EXCEPT !.startTime = w1.now, !.pc = "wait"]

\* updateSoundLevel() up to the wait loop
soundBegin(w) ==
    LET w0 == [w EXCEPT !.log = << "updateSoundLevel" >>]
    IN  IF U32Less(U32Sub(w.now, w.lastSample), SAMPLE_MILLIS)
        THEN w0
        ELSE LET w1 == Mic_resume(delay(stopMotors([w0 EXCEPT !.lastSample = w.now]), 200))
             IN  [w1 EXCEPT !.startTime = w1.now, !.pc = "wait"]

\* the wait loop: d iterations of delay(1) during which nothing else happens,
\* never past the first iteration that sees the timeout
soundPoll(w, d) ==
    IF w.record_ready THEN [w EXCEPT !.pc = "captured"]
    ELSE IF U32Less(500, U32Sub(w.now, w.startTime))
    THEN [Called(w, "Measurement timed out") EXCEPT !.pc = "timedout"]
    ELSE LET left == 501 - U32Sub(w.now, w.startTime)
         IN  delay(w, IF d < left THEN d ELSE left)

\* variant: the timeout branch returns with the microphone running
soundTimeout_NoPause(w) == [w EXCEPT !.pc = "loop"]

\* the timeout branch of the loop, from `recording = 0` to its return
soundTimeout(w) == [Mic_pause(w) EXCEPT !.pc = "loop"]

\* variant: the amplitudes of a run added into an int16_t accumulator
RECURSIVE addRun_Int16(_, _, _)
addRun_Int16(acc, v, n) ==
    IF n = 0 THEN acc
    ELSE IF n = 1 THEN [acc EXCEPT !.sum = ((@ + abs(v) + 32768) % 65536) - 32768]
    ELSE LET half == addRun_Int16(acc, v, n \div 2)
         IN  IF half.overflow THEN half ELSE addRun_Int16(half, v, n - n \div 2)

\* `sum += abs(recording_buf[i])` over a run of n samples of value v, in an
\* int32_t accumulator: signed overflow is undefined, and nothing is added
\* after it.  The run is added one sample at a time, first half then second
\* half.
RECURSIVE addRun(_, _, _)
addRun(acc, v, n) ==
    IF n = 0 THEN acc
    ELSE IF n = 1
    THEN IF acc.sum > INT32_MAX - abs(v)
         THEN [acc EXCEPT !.overflow = TRUE]
         ELSE [acc EXCEPT !.sum = @ + abs(v)]
    ELSE LET half == addRun(acc, v, n \div 2)
         IN  IF half.overflow THEN half ELSE addRun(half, v, n - n \div 2)

\* the summing loop over recording_buf
RECURSIVE soundSum(_, _)
soundSum(acc, buf) ==
    IF buf = << >> THEN acc
    ELSE soundSum(addRun(acc, Head(buf)[1], Head(buf)[2]), Tail(buf))

\* the values `average` can take: anything once the sum has overflowed
soundAverages(buf) ==
    LET acc == soundSum([sum |-> 0, overflow |-> FALSE], buf)
    IN  IF acc.overflow THEN 0 .. 255
        ELSE { U8(constrain(CDiv(acc.sum, SAMPLES), 0, 255)) }

\* the sound levels of the captures of a walk
CapturedLevels == UNION { soundAverages(buf) : buf \in CapturedBufs }

\* updateSoundLevel() after the loop; average is the mean amplitude of
\* recording_buf constrained to 0..255
soundFinish(w, average) ==
    LET w1 == resumeMotors(Mic_pause(w))
    IN  [update_sound(w1, average) EXCEPT !.record_ready = FALSE, !.pc = "loop"]

-----------------------------------------------------------------------------
(* Dashboard: the useWebSocketOptimized hook, with its default options *)

MIN_RECONNECT_INTERVAL == 2000
reconnectAttempts == 5
reconnectInterval == 1000
maxReconnectInterval == 30000
\* reconnectFactor = 1.5, as a fraction
reconnectFactorNum == 3
reconnectFactorDen == 2
throttleMs == 100
manual == FALSE
MAX_QUEUE_SIZE == 50
\* Math.random() is JitterNum / JitterDen
JitterDen == 1000

\* no timer identifier (null) and no message (null)
NoTimer == 0
NoMessage == 0
NoDelivery == << NoMessage, 0 >>

\* the hook after its first render: refs and state hold their initial values.
\* History: arrived counts the messages received, delivered holds the last
\* two <<message, clock>> pairs handed to setLastMessage, dropped the message
\* last shifted out by the overflow guard, created counts the WebSockets
\* constructed, owed tells that a close promised a reconnection that has not
\* been made, automatic counts the connections made by the reconnect timer
\* since the last open, disconnected tells that disconnect() was called and
\* connect() has not been called by the user since.
useWebSocketOptimized ==
    [ clock |-> 0, isMounted |-> TRUE,
      readyState |-> "UNINSTANTIATED", lastMessage |-> NoMessage,
      reconnectCount |-> 0, reconnectTimeoutId |-> NoTimer,
      lastConnectAttempt |-> 0, isFirstMount |-> TRUE,
      socket |-> "NONE", socketWasOpen |-> FALSE, superseded |-> << >>,
      reconnectTimers |-> {},
      messageQueue |-> << >>, processingQueue |-> FALSE,
      lastMessageByType |-> FALSE, lastProcessTime |-> 0,
      queueTimers |-> << >>,
      arrived |-> 0, delivered |-> << NoDelivery, NoDelivery >>,
      dropped |-> NoMessage,
      created |-> 0, owed |-> FALSE, automatic |-> 0, disconnected |-> FALSE ]

\* setTimeout(processMessageQueue, delay)
setQueueTimer(h, ms) ==
    [h EXCEPT !.queueTimers = Append(@, h.clock + ms)]

\* Math.max(throttleMs, Math.min(throttleMs * (length / 10), 500))
dynamicThrottle(length) ==
    max(throttleMs, min((throttleMs * length) \div 10, 500))

processMessageQueue(h) ==
    IF ~h.isMounted \/ Len(h.messageQueue) = 0
    THEN [h EXCEPT !.processingQueue = FALSE]
    ELSE LET timeSinceLastProcess == h.clock - h.lastProcessTime
             throttle == dynamicThrottle(Len(h.messageQueue))
         IN  IF timeSinceLastProcess < throttle
             THEN setQueueTimer(h, throttle - timeSinceLastProcess)
             ELSE LET message == Head(h.messageQueue)
                      h1 == [h EXCEPT !.processingQueue = TRUE,
                                      !.lastProcessTime = h.clock,
                                      !.messageQueue = Tail(@),
                                      !.lastMessage = message,
                                      !.delivered =
                                          << h.delivered[2],
                                             << message, h.clock >> >>]
                  IN  setQueueTimer(h1, throttle)

\* messageQueue.current.shift()
shift(h) ==
    [h EXCEPT !.messageQueue = Tail(@),
              !.dropped = Head(h.messageQueue)]

\* while (messageQueue.current.length >= MAX_QUEUE_SIZE) shift
RECURSIVE enforceMaximum(_)
enforceMaximum(h) ==
    IF Len(h.messageQueue) >= MAX_QUEUE_SIZE
    THEN enforceMaximum(shift(h))
    ELSE h

\* variant: the overflow guard lets the queue reach MAX_QUEUE_SIZE + 1
queueMessage_Late(h, kind) ==
    LET event == h.arrived + 1
        h1 == [h EXCEPT !.arrived = event]
        h2 == IF Len(h1.messageQueue) > MAX_QUEUE_SIZE THEN shift(h1) ELSE h1
        h3 == [h2 EXCEPT !.messageQueue = Append(@, event)]
    IN  IF kind = "duplicate" THEN h1
        ELSE IF ~h3.processingQueue THEN processMessageQueue(h3) ELSE h3

\* event is the next message; kind tells what its data is: "update" is JSON
\* that passes the filter and is remembered by type, "json" is other JSON,
\* "duplicate" is a positional update the filter rejects, "text" is not JSON
queueMessage(h, kind) ==
    LET event == h.arrived + 1
        h1 == enforceMaximum([h EXCEPT !.arrived = event])
        h2 == CASE kind = "update" ->
                     [h1 EXCEPT !.lastMessageByType = TRUE,
                                !.messageQueue = Append(@, event)]
                [] kind = "json" ->
                     [h1 EXCEPT !.messageQueue = Append(@, event)]
                [] kind = "text" ->
                     [(IF Len(h1.messageQueue) >= MAX_QUEUE_SIZE
                       THEN shift(h1) ELSE h1)
                         EXCEPT !.messageQueue = Append(@, event)]
    IN  IF kind = "duplicate" THEN h1
        ELSE IF ~h2.processingQueue THEN processMessageQueue(h2) ELSE h2

RECURSIVE pow(_, _)
pow(b, e) == IF e = 0 THEN 1 ELSE b * pow(b, e - 1)

\* Math.min(baseDelay + jitter, maxDelay), as setTimeout truncates it
getReconnectDelay(h, jitterNum) ==
    min((reconnectInterval * pow(reconnectFactorNum, h.reconnectCount)
             * (2 * JitterDen + jitterNum))
            \div (pow(reconnectFactorDen, h.reconnectCount) * 2 * JitterDen),
        maxReconnectInterval)

\* clearTimeout(reconnectTimeoutId.current); reconnectTimeoutId.current = null
clearReconnectTimer(h) ==
    IF h.reconnectTimeoutId = NoTimer THEN h
    ELSE [h EXCEPT !.reconnectTimers =
                       { t \in @ : t.id # h.reconnectTimeoutId },
                   !.reconnectTimeoutId = NoTimer]

\* socket.current.close(1000, ...): the close event comes later
close(h) ==
    IF h.socket \in { "CONNECTING", "OPEN" }
    THEN [h EXCEPT !.socket = "CLOSING", !.socketWasOpen = (h.socket = "OPEN")]
    ELSE h

\* socket.current = new WebSocket(url, protocols); the socket it replaces
\* still fires its close event if it has not yet
newWebSocket(h) ==
    [h EXCEPT !.superseded = IF h.socket = "CLOSING"
                             THEN Append(@, h.socketWasOpen) ELSE @,
              !.socket = "CONNECTING", !.socketWasOpen = FALSE,
              !.created = @ + 1, !.owed = FALSE]

connect(h) ==
    IF ~h.isMounted THEN h
    ELSE IF ~h.isFirstMount
            /\ h.clock - h.lastConnectAttempt < MIN_RECONNECT_INTERVAL
    THEN h
    ELSE LET h1 == [h EXCEPT !.lastConnectAttempt = h.clock,
                             !.isFirstMount = FALSE]
             h2 == close(clearReconnectTimer(h1))
         IN  newWebSocket([h2 EXCEPT !.readyState = "CONNECTING"])

\* socket.current.onopen
onopen(h) ==
    IF ~h.isMounted THEN h
    ELSE [h EXCEPT !.readyState = "OPEN", !.reconnectCount = 0,
                   !.automatic = 0]

\* the identifier setTimeout returns: one that no pending timer has
newTimerId(h) ==
    CHOOSE id \in 1 .. (Cardinality(h.reconnectTimers) + 1) :
        \A t \in h.reconnectTimers : t.id # id

\* socket.current.onclose, of the current socket or of one it replaced
onclose(h, code, jitterNum) ==
    IF ~h.isMounted THEN h
    ELSE LET h1 == [h EXCEPT !.readyState = "CLOSED"]
             shouldReconnect ==
                 h.reconnectCount < reconnectAttempts /\ code # 1000
         IN  IF shouldReconnect
             THEN [h1 EXCEPT !.reconnectTimeoutId = newTimerId(h),
                             !.reconnectTimers = @ \cup
                                 { [id |-> newTimerId(h),
                                    due |-> h.clock
                                            + getReconnectDelay(h, jitterNum)] },
                             !.owed = TRUE]
             ELSE h1

\* the callback that onclose hands to setTimeout
reconnectTimeout(h) ==
    LET h1 == connect([h EXCEPT !.reconnectCount = @ + 1])
    IN  [h1 EXCEPT !.automatic = IF h1.created # h.created THEN @ + 1 ELSE @]

\* socket.current.onmessage
onmessage(h, kind) ==
    IF ~h.isMounted THEN h ELSE queueMessage(h, kind)

disconnect(h) ==
    LET h1 == IF h.socket # "NONE"
              THEN close([h EXCEPT !.reconnectCount = reconnectAttempts])
              ELSE h
    IN  [clearReconnectTimer(h1) EXCEPT !.disconnected = TRUE, !.owed = FALSE]

\* the connect that the hook returns to its user
manualConnect(h) ==
    [connect([h EXCEPT !.reconnectCount = 0]) EXCEPT !.disconnected = FALSE]

\* the function the mount effect returns
cleanup(h) == clearReconnectTimer(close(h))

\* the mount effect
effect(h) == IF ~manual THEN connect(h) ELSE h

\* a later render: protocols defaults to a new array, so connect is a new
\* function and the mount effect is cleaned up and run again
render(h) == effect(cleanup(h))

\* the component unmounts: usePreventMemoryLeaks clears isMounted, then the
\* mount effect is cleaned up
unmount(h) == [cleanup([h EXCEPT !.isMounted = FALSE]) EXCEPT !.owed = FALSE]

\* the hook once its component is mounted
Mounted == effect(useWebSocketOptimized)

\* a burst of n JSON messages on the open socket
RECURSIVE burst(_, _)
burst(h, n) ==
    IF n = 0 THEN h
    ELSE LET h1 == onmessage(h, "json")
         IN  IF h1.arrived = h.arrived THEN h1 ELSE burst(h1, n - 1)

\* the hook throttleMs after its mount, its socket open
Opened == onopen([Mounted EXCEPT !.socket = "OPEN", !.clock = throttleMs])

\* the number of messages of the burst: it leaves the queue two short of full
Backlog == MAX_QUEUE_SIZE - 1

-----------------------------------------------------------------------------
(* Initial state: after setup() *)

InitCommon ==
    /\ pc = "loop"
    /\ bleScanning = FALSE
    /\ discovered = << >>
    /\ rssiBuffers = [i \in Beacons |-> [k \in 0 .. (windowSize - 1) |-> 0]]
    /\ rssiIndexes = [i \in Beacons |-> 0]
    /\ buffersFilled = [i \in Beacons |-> FALSE]
    /\ lastUpdatedTimes = [i \in Beacons |-> 0]
    /\ smoothedX = NAN /\ smoothedY = NAN
    /\ lastScanRestart = 0
    /\ pos_x = 0 /\ pos_y = 0 /\ heading = 0
    /\ battery_level = 255 /\ sound_level = 0
    /\ pins = [p \in {motorRight, motorLeft} |-> FALSE]
    /\ leftState = FALSE /\ rightState = FALSE
    /\ previousMillis = 0
    /\ lastSample = 0 /\ startTime = 0
    /\ record_ready = FALSE /\ idx = 0 /\ micOn = FALSE
    /\ samples = [i \in Beacons |-> << >>]
    /\ pause = [active |-> FALSE, depth |-> 0, pre |-> << FALSE, FALSE >>]
    /\ lastHeading = 0
    /\ stored = [x |-> 0, y |-> 0, heading |-> 0, battery |-> 255, sound |-> 0]
    /\ args = [op |-> "none"]
    /\ result = << >>
    /\ calibData = [offset |-> [k \in 1 .. 3 |-> Frac(0, 1)],
                    scale |-> [k \in 1 .. 3 |-> Frac(1, 1)]]

\* setupOrientation() has run compass.calibrate()
Calibrated ==
    /\ magOffset = calibration(BootSweep).magOffset
    /\ magScale = calibration(BootSweep).magScale

InitBoot(intervals) ==
    /\ InitCommon
    /\ Calibrated
    /\ interval \in intervals
    /\ now = 0
    /\ scanning = FALSE /\ lastSwap = 0
    /\ bleAdvertising = FALSE
    /\ advData = << >>
    /\ log = << >>
    /\ flips = << >>

Init == InitBoot({minWalkTime}) /\ hook = Mounted

\* initialiseLocomotion() draws the first interval
InitWalk == InitBoot(WalkIntervals) /\ hook = Mounted

\* The bot 2^32 - LateMargin ms after boot, in the advertising role it entered
\* 50 or 900 ms earlier, having heard no beacon so far.
InitLate ==
    /\ InitCommon
    /\ Calibrated
    /\ interval = minWalkTime
    /\ now = -LateMargin
    /\ scanning = FALSE
    /\ \E dwelt \in LateDwells : lastSwap = -LateMargin - dwelt
    /\ bleAdvertising = TRUE
    /\ advData = << 255, 255, 0, 0, 0, 255, 0 >>
    /\ log = << "swapClientServer", "BLE.stopScan", "updateLocalisation",
                "set_manuf_data", "BLE.setAdvertisingData", "BLE.advertise" >>
    /\ flips = << lastSwap >>
    /\ hook = Mounted

\* Before setupOrientation(): `CompassModule compass` is a global without an
\* initialiser for its calibration members, which static initialisation zeroes
InitStatic ==
    /\ InitCommon
    /\ magOffset = [k \in 1 .. 3 |-> Frac(0, 1)]
    /\ magScale = [k \in 1 .. 3 |-> Frac(0, 1)]
    /\ interval = minWalkTime
    /\ now = 0
    /\ scanning = FALSE /\ lastSwap = 0
    /\ bleAdvertising = FALSE
    /\ advData = << >>
    /\ log = << >>
    /\ flips = << >>
    /\ hook = Mounted

\* The dashboard once its socket has opened: nothing received yet, or
\* throttleMs later a burst of Backlog messages of which the first was
\* delivered on arrival
InitQueue ==
    /\ InitBoot({minWalkTime})
    /\ hook \in { Mounted, burst(Opened, Backlog) }

-----------------------------------------------------------------------------
(* Actions *)

TotalSamples == Len(samples[0]) + Len(samples[1]) + Len(samples[2])

\* time passes between two handler calls of loop()
TickUntil(limit) ==
    /\ pc = "loop"
    /\ \E d \in TickSteps :
          /\ now + d <= limit
          /\ now' = now + d
    /\ UNCHANGED << pc, scanning, lastSwap, bleScanning, bleAdvertising, advData,
           discovered, rssiBuffers, rssiIndexes, buffersFilled, lastUpdatedTimes,
           smoothedX, smoothedY, lastScanRestart, pos_x, pos_y, heading,
           battery_level, sound_level, pins, leftState, rightState,
           previousMillis, interval, lastSample, startTime, record_ready, idx,
           micOn, log, samples, flips, pause, lastHeading, stored, args, result,
           magOffset, magScale, calibData, hook >>

Tick == TickUntil(MaxTime)

\* while scanning, the radio hears an advertisement; the stack queues it
Receive ==
    /\ bleScanning
    /\ Len(discovered) < MaxPending
    /\ TotalSamples + Len(discovered) < MaxSamples
    /\ \E name \in PeerNames, rssi \in RSSIValues :
          Commit([World EXCEPT !.discovered = Append(@, [name |-> name, rssi |-> rssi])])

\* loop() calls swapClientServer()
SwapClientServer ==
    /\ pc = "loop"
    /\ now <= MaxTime
    /\ \E p \in SolvedPoints, ok \in BOOLEAN :
          Commit(swapClientServer(World, p, ok))

\* the stack calls the discovery handler
Discovered ==
    /\ TotalSamples < MaxSamples
    /\ \E name \in PeerNames, rssi \in RSSIValues :
          Commit(deviceDiscoveredCallback(
                    [World EXCEPT !.log = << "deviceDiscoveredCallback" >>], name, rssi))

\* updateLocalisation() is called
Localise ==
    \E p \in LocPoints :
        Commit(updateLocalisation([World EXCEPT !.log = << >>], p))

\* calls of the Comms interface, in any order
UpdatePosition ==
    \E x \in FieldBytes, y \in FieldBytes : Commit(update_position(World, x, y))

UpdateHeading ==
    \E h \in FieldBytes : Commit(update_heading(World, h))

UpdateBatteryLevel ==
    \E level \in FieldBytes : Commit(update_battery_level(World, level))

UpdateSound ==
    \E level \in FieldBytes : Commit(update_sound(World, level))

AdvertiseBLE ==
    /\ Len(log) < 3 * MaxAdvertise
    /\ \E ok \in BOOLEAN : Commit(advertiseBLE(World, ok))

AdvertiseBLE_short ==
    /\ Len(log) < 3 * MaxAdvertise
    /\ \E ok \in BOOLEAN : Commit(advertiseBLE_short(World, ok))

\* one call of an encoder on any input
SendPosition ==
    /\ args.op = "none"
    /\ \E x \in PositionTenths, y \in PositionTenths :
          Commit(sendPosition([World EXCEPT
                    !.args = [op |-> "sendPosition", x |-> x, y |-> y]], x, y))

DisplayHeading ==
    /\ args.op = "none"
    /\ \E a \in AtanTenths : Commit(displayHeading(World, a))

\* compass.calibrate() over any sweep
Calibrate ==
    /\ args.op = "none"
    /\ \E sweep \in Sweeps :
          Commit([calibrate(World, sweep) EXCEPT
                  !.args = [op |-> "calibrate", sweep |-> sweep]])

\* calibrateMagnetometer() over any sweep; it uses every reading and takes
\* at least one
CalibrateMagnetometer ==
    /\ args.op = "none"
    /\ \E sweep \in Sweeps \ { << >> } :
          Commit([calibrateMagnetometer(World, sweep) EXCEPT
                  !.args = [op |-> "calibrateMagnetometer", sweep |-> sweep]])

\* compass.readHeading() on any raw sample before calibrate() has run
ReadHeading ==
    /\ args.op = "none"
    /\ \E m \in HeadingSamples :
          LET c == applyCalibration(World, m)
          IN  \E a \in atan2(c[2], c[1]) :
                  Commit([Called(World, "readHeading") EXCEPT
                          !.args = [op |-> "readHeading", m |-> m],
                          !.result = readHeading(a)])

\* one call of levyWalk() on any draws
LevyWalk ==
    /\ args.op = "none"
    /\ \E r \in RandomDraws :
          \E k \in (IF r < 60 THEN random(1, 10000) ELSE {1}),
             t \in (IF r < 60 THEN {minWalkTime} ELSE random(minWalkTime, 1000)) :
              Commit(levyWalk([World EXCEPT
                        !.args = [op |-> "levyWalk", r |-> r, k |-> k, t |-> t]],
                     r, levyWalkInterval(r, k, t)))

\* the first solved position becomes the smoothed position as it is ...
SmoothFirst ==
    /\ args.op = "none"
    /\ \E p \in SmoothTargets, o \in SmoothOffsets :
          LET q == << p[1] + o[1], p[2] + o[2] >>
          IN  Commit(smoothing([World EXCEPT
                        !.args = [op |-> "smoothing", p |-> p, start |-> q, n |-> 0]],
                     q[1], q[2]))

\* ... and every later one is the same position p
SmoothNext ==
    /\ args.op = "smoothing"
    /\ args.n < MaxUpdates
    /\ Commit(smoothing([World EXCEPT !.args.n = @ + 1], args.p[1], args.p[2]))

\* one solve from the noise-free distances of a true position
Trilaterate ==
    /\ args.op = "none"
    /\ \E survey \in DOMAIN SurveyBeacons, tx \in TruePointsX, ty \in TruePointsY :
          LET b == SurveyBeacons[survey]
              d == [i \in 1 .. 3 |-> Hypot(tx - b[i][1], ty - b[i][2])]
              sol == trilateration(d)
          IN  Commit([World EXCEPT
                  !.args = [op |-> "trilateration", survey |-> survey,
                            t |-> << tx, ty >>, d |-> d],
                  !.result = [x |-> sol.x, y |-> sol.y, residual |-> sol.residual,
                              confidence |-> confidence(sol.residual)]])

\* the confidence of any residual
Confidence ==
    /\ args.op = "none"
    /\ \E residual \in 0 .. MaxResidual :
          Commit([World EXCEPT
                  !.args = [op |-> "confidence", residual |-> residual],
                  !.result = confidence(residual)])

\* the summing loop and the clamp on any recording_buf
SoundAverage ==
    /\ args.op = "none"
    /\ \E buf \in RecordingBufs :
          \E average \in soundAverages(buf) :
              Commit([World EXCEPT
                      !.args = [op |-> "average", buf |-> buf],
                      !.result = average])

TickWalk == TickUntil(MaxWalkTime)

\* loop() calls updateLocomotion()
UpdateLocomotion ==
    /\ pc = "loop"
    /\ now <= MaxWalkTime
    /\ \E r \in RandomDraws :
          \E iv \in (IF r < 60 THEN WalkIntervals ELSE TurnIntervals) :
              Commit(updateLocomotion(World, r, iv))

\* loop() calls updateSoundLevel()
SoundBegin ==
    /\ pc = "loop"
    /\ now <= MaxWalkTime
    /\ Commit(soundBegin(World))

SoundPoll ==
    /\ pc = "wait"
    /\ \E d \in WaitSteps : Commit(soundPoll(World, d))

SoundTimeout ==
    /\ pc = "timedout"
    /\ Commit(soundTimeout(World))

SoundFinish ==
    /\ pc = "captured"
    /\ \E average \in CapturedLevels : Commit(soundFinish(World, average))

\* the microphone interrupt, whenever the microphone runs
AudioCallback ==
    /\ micOn
    /\ \E buf_len \in BufLens : Commit(audio_rec_callback(World, buf_len))

-----------------------------------------------------------------------------
(* Dashboard hook: events *)

\* bounds of the hook's runs
MaxArrivals == 4
MaxQueueClock == 300
MaxSocketClock == 3000
MaxCreated == 3

QueueSteps == { 30, 100 }
SocketSteps == { 1000 }
MessageKinds == { "update", "json", "duplicate", "text" }
CloseCodes == { 1000, 1006 }
JitterNums == { 0, JitterDen - 1 }

HookStep(h) == Commit([World EXCEPT !.hook = h])

\* time passes
QueueTick ==
    \E d \in QueueSteps :
        /\ hook.clock + d <= MaxQueueClock
        /\ HookStep([hook EXCEPT !.clock = @ + d])

SocketTick ==
    \E d \in SocketSteps :
        /\ hook.clock + d <= MaxSocketClock
        /\ HookStep([hook EXCEPT !.clock = @ + d])

\* the connection is established
SocketOpens ==
    /\ hook.created <= MaxCreated
    /\ hook.socket = "CONNECTING"
    /\ HookStep(onopen([hook EXCEPT !.socket = "OPEN"]))

\* the close event of the current socket: a failed connection, a close by
\* the server or the network, or the end of a close the client asked for
SocketCloses ==
    /\ hook.created <= MaxCreated
    /\ hook.socket \in { "CONNECTING", "OPEN", "CLOSING" }
    /\ \E code \in CloseCodes, jitterNum \in JitterNums :
        /\ (hook.socket = "CONNECTING"
              \/ (hook.socket = "CLOSING" /\ ~hook.socketWasOpen))
               => code = 1006
        /\ HookStep(onclose([hook EXCEPT !.socket = "CLOSED"], code, jitterNum))

\* the close event of a socket that connect() replaced
SupersededCloses ==
    /\ hook.created <= MaxCreated
    /\ hook.superseded # << >>
    /\ \E code \in CloseCodes, jitterNum \in JitterNums :
        /\ ~Head(hook.superseded) => code = 1006
        /\ HookStep(onclose([hook EXCEPT !.superseded = Tail(@)],
                            code, jitterNum))

\* a message arrives on the open socket
OnMessage ==
    /\ hook.socket = "OPEN"
    /\ \E n \in { 0, Backlog } :
           n <= hook.arrived /\ hook.arrived < n + MaxArrivals
    /\ \E kind \in MessageKinds :
        /\ kind = "duplicate" => hook.lastMessageByType
        /\ HookStep(onmessage(hook, kind))

\* a processMessageQueue timer fires: the earliest one, at its time or later
QueueTimer ==
    \E i \in 1 .. Len(hook.queueTimers) :
        /\ \A j \in 1 .. Len(hook.queueTimers) :
               hook.queueTimers[i] <= hook.queueTimers[j]
        /\ HookStep(processMessageQueue(
               [hook EXCEPT !.clock = max(@, hook.queueTimers[i]),
                            !.queueTimers =
                                SubSeq(@, 1, i - 1) \o SubSeq(@, i + 1, Len(@))]))

\* a reconnect timer fires: the earliest one, at its time or later
ReconnectTimeout ==
    \E t \in hook.reconnectTimers :
        /\ \A u \in hook.reconnectTimers : t.due <= u.due
        /\ HookStep(reconnectTimeout(
               [hook EXCEPT !.clock = max(@, t.due),
                            !.reconnectTimers = @ \ { t }]))

\* the user calls the connect the hook returned
ManualConnect ==
    /\ hook.isMounted
    /\ hook.created < MaxCreated
    /\ HookStep(manualConnect(hook))

\* the user calls disconnect
Disconnect ==
    /\ hook.isMounted
    /\ ~hook.disconnected
    /\ HookStep(disconnect(hook))

\* the component renders again
Render ==
    /\ hook.isMounted
    /\ hook.created < MaxCreated
    /\ HookStep(render(hook))

\* the component unmounts
Unmount ==
    /\ hook.isMounted
    /\ HookStep(unmount(hook))

-----------------------------------------------------------------------------
NextRadio == Tick \/ Receive \/ SwapClientServer

NextLoc == Discovered \/ Localise

SpecRadio == Init /\ [][NextRadio]_vars

\* the same scheduler late in a long run, with no beacon in range
NextLate == Tick \/ SwapClientServer

SpecLate == InitLate /\ [][NextLate]_vars

SpecLoc == Init /\ [][NextLoc]_vars

NextWalk ==
    TickWalk \/ UpdateLocomotion \/ SoundBegin \/ SoundPoll \/ SoundTimeout
        \/ SoundFinish \/ AudioCallback

SpecWalk == InitWalk /\ [][NextWalk]_vars

\* the sound measurer alone.  loop() is the only thread: once inside
\* updateSoundLevel the processor keeps executing it, whatever the microphone
\* interrupt does
NextSound ==
    TickWalk \/ SoundBegin \/ SoundPoll \/ SoundTimeout \/ SoundFinish
        \/ AudioCallback

SpecSound ==
    /\ Init /\ [][NextSound]_vars
    /\ WF_vars(SoundPoll) /\ WF_vars(SoundTimeout) /\ WF_vars(SoundFinish)

\* the packet encoder under any sequence of updates: the build with a heading
\* byte, and the build without
NextPacket ==
    UpdatePosition \/ UpdateHeading \/ UpdateBatteryLevel \/ UpdateSound
        \/ AdvertiseBLE

SpecPacket == Init /\ [][NextPacket]_vars

NextPacketShort ==
    UpdatePosition \/ UpdateBatteryLevel \/ UpdateSound \/ AdvertiseBLE_short

SpecPacketShort == Init /\ [][NextPacketShort]_vars

\* the walk's choice of action and interval, on every draw
NextInterval == LevyWalk

SpecInterval == InitWalk /\ [][NextInterval]_vars

\* the position solver and the confidence formula, each on its inputs
NextSolve == Trilaterate

SpecSolve == Init /\ [][NextSolve]_vars

NextConfidence == Confidence

SpecConfidence == Init /\ [][NextConfidence]_vars

\* the compass from static initialisation on: a calibration over any sweep, or
\* a heading read without one
NextCompass == Calibrate \/ CalibrateMagnetometer \/ ReadHeading

SpecCompass == InitStatic /\ [][NextCompass]_vars

\* the sound level of any recording_buf
NextAverage == SoundAverage

SpecAverage == Init /\ [][NextAverage]_vars

\* the smoothing step under a constant stream of solved positions
NextSmooth == SmoothFirst \/ SmoothNext

SpecSmooth == Init /\ [][NextSmooth]_vars

\* the quantizers of position and heading, each on every input
NextQuant == SendPosition \/ DisplayHeading

SpecQuant == Init /\ [][NextQuant]_vars

\* the message queue of the dashboard hook
NextQueue == QueueTick \/ SocketOpens \/ OnMessage \/ QueueTimer

SpecQueue == InitQueue /\ [][NextQueue]_vars

\* the connection of the dashboard hook; a pending timer fires and a socket
\* that is connecting or closing gets its event
NextSocket ==
    \/ SocketTick \/ SocketOpens \/ SocketCloses \/ SupersededCloses
    \/ ReconnectTimeout \/ ManualConnect \/ Disconnect \/ Render \/ Unmount

SpecSocket ==
    /\ Init /\ [][NextSocket]_vars
    /\ WF_vars(ReconnectTimeout)
    /\ WF_vars(SocketCloses \/ SocketOpens)
    /\ WF_vars(SupersededCloses)

-----------------------------------------------------------------------------
(* Properties *)

Events(l) == { l[k] : k \in 1 .. Len(l) }

RECURSIVE SumSeq(_)
SumSeq(q) == IF q = << >> THEN 0 ELSE Head(q) + SumSeq(Tail(q))

LastN(q, n) == SubSeq(q, Len(q) - n + 1, Len(q))

\* the handler that ran last flipped the radio to the advertising role
EnteredAdvertising ==
    /\ Len(log) > 1
    /\ log[1] = "swapClientServer"
    /\ ~scanning

\* C1: two consecutive changes of the radio role are at least SWAP_INTERVAL ms
\* apart, and the first change after startup comes no earlier than
\* SWAP_INTERVAL after time 0.
C1_MinimumDwell ==
    /\ Len(flips) >= 1 => ~U32Less(flips[1], SWAP_INTERVAL)
    /\ Len(flips) = 2 => ~U32Less(U32Sub(flips[2], flips[1]), SWAP_INTERVAL)

\* C2: the radio never scans and advertises at once; within a handler every
\* start of a scan follows a stop of advertising and every start of advertising
\* follows a stop of the scan, with no start of the other role in between.
C2_RadioExclusive ==
    /\ ~(bleScanning /\ bleAdvertising)
    /\ \A k \in 1 .. Len(log) :
          /\ log[k] = "BLE.scan" =>
                \E j \in 1 .. (k - 1) :
                    /\ log[j] = "BLE.stopAdvertise"
                    /\ \A m \in (j + 1) .. (k - 1) : log[m] # "BLE.advertise"
          /\ log[k] = "BLE.advertise" =>
                \E j \in 1 .. (k - 1) :
                    /\ log[j] = "BLE.stopScan"
                    /\ \A m \in (j + 1) .. (k - 1) : log[m] # "BLE.scan"

C2_Witness ==
    /\ bleAdvertising
    /\ Len(flips) = 2
    /\ "BLE.advertise" \in Events(log)

\* C3: a flip to advertising stops the scan, runs updateLocalisation, encodes
\* the packet from the state that leaves and only then starts advertising,
\* each once and in this order; updateLocalisation (and with it the
\* trilateration) runs in no other handler call.
C3_AdvertisingEntryOrder ==
    LET Step(e) == e \in { "BLE.stopScan", "BLE.scan", "updateLocalisation",
                           "set_manuf_data", "BLE.advertise", "BLE.stopAdvertise" }
    IN  /\ EnteredAdvertising =>
            /\ SelectSeq(log, Step) = << "BLE.stopScan", "updateLocalisation",
                                         "set_manuf_data", "BLE.advertise" >>
            /\ advData = create_manuf_data_packet(World)
        /\ ({ "updateLocalisation", "trilateration" } \cap Events(log) # {}
              => EnteredAdvertising)
        /\ \A k \in 1 .. Len(log) :
              log[k] = "trilateration" => k > 1 /\ log[k - 1] = "updateLocalisation"

C3_Witness ==
    /\ EnteredAdvertising
    /\ "trilateration" \in Events(log)
    /\ bleAdvertising
    /\ advData[3] = 63 /\ advData[4] = 127

\* C4: for a beacon with n >= 1 inserted samples avgRSSI is the arithmetic mean
\* of exactly the last min(n, windowSize) inserted values.
C4_AverageOfWindow ==
    \A i \in Beacons :
        Len(samples[i]) >= 1 =>
            LET m == IF Len(samples[i]) < windowSize THEN Len(samples[i]) ELSE windowSize
                a == avgRSSI(World, i)
            IN  /\ a.den = m
                /\ a.num = SumSeq(LastN(samples[i], m))

C4_Witness ==
    \E i \in Beacons :
        /\ Len(samples[i]) = windowSize + 1
        /\ samples[i][1] # samples[i][windowSize + 1]
        /\ avgRSSI(World, i).den = windowSize

\* C5: the readiness gate of updateLocalisation is true exactly when every
\* beacon has at least one recorded sample, and the solve runs exactly then.
C5_ReadinessGate ==
    LET all == \A i \in Beacons : Len(samples[i]) >= 1
    IN  /\ ready(World) <=> all
        /\ (log # << >> /\ log[1] = "updateLocalisation")
              => (("trilateration" \in Events(log)) <=> all)

C5_Witness ==
    /\ log = << "updateLocalisation" >>
    /\ \E i, j \in Beacons :
          /\ Len(samples[i]) >= windowSize
          /\ samples[j] = << >>

\* C6: a call of updateLocalisation that finds the gate false leaves the
\* smoothed position and the packet's position bytes as they were.
C6_NotReadyLeavesPosition ==
    [][ (log' # << >> /\ log'[1] = "updateLocalisation" /\ ~ready(World)') =>
            /\ smoothedX' = smoothedX /\ smoothedY' = smoothedY
            /\ pos_x' = pos_x /\ pos_y' = pos_y ]_vars

C6_Witness ==
    /\ log = << "updateLocalisation" >>
    /\ \E i \in Beacons : samples[i] # << >>
    /\ isnan(smoothedX) /\ pos_x = 0 /\ pos_y = 0

\* the handler that ran last called resumeMotors
Resumed == "resumeMotors" \in Events(log)

\* C7: two stopMotors calls with no resume between them, then one
\* resumeMotors, restore the outputs that were active before the first call.
C7_DoublePauseRestores ==
    (Resumed /\ pause.depth = 2) => Outputs(World) = pause.pre

\* C8: stopMotors followed by resumeMotors with no motor write in between
\* holds both outputs LOW during the pause and leaves them as they were
\* before stopMotors.
C8_PauseResumeRestores ==
    /\ pause.active => Outputs(World) = << FALSE, FALSE >>
    /\ (Resumed /\ pause.depth = 1) => Outputs(World) = pause.pre

C8_Witness ==
    /\ Resumed
    /\ pause.depth = 1
    /\ pause.pre = << TRUE, FALSE >>

\* C9: when the capture times out, updateSoundLevel returns with the motor
\* outputs restored to their values before the pause.
C9_TimeoutResumes ==
    (pc = "loop" /\ "Measurement timed out" \in Events(log))
        => Outputs(World) = pause.pre

\* C10: while the microphone captures, both motor outputs are LOW.
C10_MotorsSilentWhileCapturing ==
    micOn => Outputs(World) = << FALSE, FALSE >>

C10_Witness ==
    /\ micOn
    /\ pc = "wait"
    /\ pause.pre = << TRUE, TRUE >>
    /\ idx > 0

\* the fields as the update_* calls (or setupCommunication) left them
StoredPacket ==
    << 255, 255, stored.x, stored.y, stored.heading, stored.battery, stored.sound >>

StoredPacketShort ==
    << 255, 255, stored.x, stored.y, stored.battery, stored.sound >>

\* C11: the advertised payload is 7 bytes FF FF X Y heading battery sound (6
\* bytes FF FF X Y battery sound in the build without heading), every field
\* byte being the value last stored by its update_* call or the setup default.
C11_PacketLayout ==
    [][ (log' # log /\ "BLE.setAdvertisingData" \in Events(log')) =>
            \/ Len(advData') = 7 /\ advData' = StoredPacket'
            \/ Len(advData') = 6 /\ advData' = StoredPacketShort' ]_vars

Abs(v) == IF v < 0 THEN -v ELSE v

\* C12: decoding a position byte with the inverse linear map gives the encoded
\* coordinate within range/255, for every position inside POSITION_RANGE; the
\* same for the heading byte and every encoded heading in [0,360).
\* In tenths: decode(b) = lo + b * (hi - lo) / 255, compared after scaling by 255.
C12_QuantizationRoundTrip ==
    LET lo == POSITION_RANGE[1][1] * 10
        span == (POSITION_RANGE[1][2] - POSITION_RANGE[1][1]) * 10
    IN  /\ args.op = "sendPosition" =>
              /\ Abs(lo * 255 + pos_x * span - args.x * 255) <= span
              /\ Abs(lo * 255 + pos_y * span - args.y * 255) <= span
        /\ (args.op = "displayHeading" /\ lastHeading >= 0 /\ lastHeading < 3600) =>
              Abs(heading * 3600 - lastHeading * 255) <= 3600

\* C18: the heading handed to the packet encoder and kept as lastHeading is in
\* [0,360), so that the heading byte is the linear map of it onto 0..255 with
\* no wraparound.
C18_HeadingInRange ==
    args.op = "displayHeading" =>
        /\ getHeading(World) >= 0 /\ getHeading(World) < 3600
        /\ heading = map(CDiv(getHeading(World), 10), 0, 360, 0, 255)

\* C13: every interval powerLawRandomInterval(minWalkTime, maxWalkTime, 1.5)
\* produces lies in [minWalkTime, maxWalkTime], and every interval levyWalk
\* chooses for a turn lies in [minWalkTime, 1000).
C13_IntervalBounds ==
    args.op = "levyWalk" =>
        /\ interval >= minWalkTime
        /\ args.r < 60 => interval <= maxWalkTime
        /\ args.r >= 60 => interval < 1000

C13_Witness ==
    /\ args.op = "levyWalk"
    /\ args.r < 60 /\ args.k = 9999
    /\ interval = 1999
    /\ Outputs(World) = << TRUE, TRUE >>

\* C14: with ALPHA = 0.4 and the same solved position p at every update, after
\* 12 updates (and from then on) the smoothed position is within 1% of its
\* initial distance from p, in each coordinate, whatever it was before.
C14_SmoothingConverges ==
    (args.op = "smoothing" /\ args.n >= 12) =>
        /\ Abs(smoothedX - args.p[1]) <= Abs(args.start[1] - args.p[1]) \div 100
        /\ Abs(smoothedY - args.p[2]) <= Abs(args.start[2] - args.p[2]) \div 100

C14_Witness ==
    /\ args.op = "smoothing" /\ args.n = 12
    /\ args.p # <<0, 0>>
    /\ Abs(args.start[1] - args.p[1]) = SmoothUnit
    /\ Abs(smoothedX - args.p[1]) = 531441

C16_ConfidenceClamp ==
    args.op = "confidence" =>
        /\ result = (IF args.residual >= maxResidual THEN 0
                     ELSE maxResidual - args.residual)
        /\ result >= 0 /\ result <= maxResidual
        /\ result = maxResidual <=> args.residual = 0
        /\ args.residual >= maxResidual => result = 0
        /\ confidence(args.residual + 1) <= result

C16_Witness ==
    /\ args.op = "confidence"
    /\ args.residual > maxResidual
    /\ result = 0

\* C17: for a beacon that never had a sample inserted avgRSSI returns the
\* sentinel -100, whatever the buffer slots hold (it reads none of them).
C17_SentinelWhenEmpty ==
    \A i \in Beacons :
        samples[i] = << >> =>
            /\ avgRSSI(World, i) = [num |-> -100, den |-> 1]
            /\ \A v \in RSSIValues :
                  avgRSSI([World EXCEPT
                              !.rssiBuffers[i] = [k \in 0 .. (windowSize - 1) |-> v]], i)
                      = [num |-> -100, den |-> 1]

C17_Witness ==
    /\ samples[1] = << >>
    /\ Len(samples[0]) > windowSize
    /\ log = << "updateLocalisation" >>
    /\ avgRSSI(World, 1).num = -100

RoleStart(e) == e \in { "BLE.scan", "BLE.advertise" }

\* C19: a call of swapClientServer() at which the dwell time has elapsed flips
\* the role, once: the flag changes and exactly one role is started, the one
\* that was not active.
C19_FlipWhenElapsed ==
    [][ (log' # log /\ log'[1] = "swapClientServer"
            /\ ~U32Less(U32Sub(now, lastSwap), SWAP_INTERVAL)) =>
            /\ scanning' = ~scanning
            /\ SelectSeq(log', RoleStart)
                  = << IF scanning THEN "BLE.advertise" ELSE "BLE.scan" >> ]_vars

\* the RSSI values of the queued discoveries that carry the given name
RECURSIVE RssiOf(_, _)
RssiOf(q, name) ==
    IF q = << >> THEN << >>
    ELSE (IF Head(q).name = name THEN << Head(q).rssi >> ELSE << >>)
            \o RssiOf(Tail(q), name)

\* C20: samples enter the sampler only from discoveries made in the Scanning
\* role, and the handler that flips to Advertising records every discovery
\* still queued before its readiness gate and trilateration read the buffers.
C20_DiscoveriesRecorded ==
    [][ /\ samples' # samples => (scanning /\ EnteredAdvertising')
        /\ (log' # log /\ EnteredAdvertising') =>
              /\ discovered' = << >>
              /\ \A i \in Beacons :
                    samples'[i] = samples[i] \o RssiOf(discovered, BEACON_NAMES[i + 1])
              /\ ("trilateration" \in Events(log'))
                    <=> (\A i \in Beacons : samples'[i] # << >>) ]_vars

C20_Witness ==
    /\ EnteredAdvertising
    /\ "trilateration" \in Events(log)
    /\ \A i \in Beacons : Len(samples[i]) = 1
    /\ samples[0] # samples[1]
    /\ discovered = << >>

\* C21: the payload held by the radio changes only in a call that ends by
\* starting advertising, and that call builds every field from the values
\* current at that moment; update_* calls leave the payload as it is.
C21_PayloadFixedWhileAdvertising ==
    [][ /\ advData' # advData =>
              (log' # log /\ log'[Len(log')] = "BLE.advertise")
        /\ (log' # log /\ log'[Len(log')] = "BLE.advertise") =>
              advData' = << 255, 255, pos_x', pos_y', heading', battery_level',
                            sound_level' >> ]_vars

C21_Witness ==
    /\ bleAdvertising
    /\ Len(log) = 6
    /\ advData[3] # pos_x /\ advData[5] # heading
    /\ advData[6] # battery_level /\ advData[7] # sound_level

\* C22: building the packet and starting advertising leave the position,
\* heading, battery and sound values as they were.
C22_EncodingChangesNoField ==
    [][ (log' # log /\ log'[Len(log')] = "BLE.advertise") =>
            /\ pos_x' = pos_x /\ pos_y' = pos_y
            /\ heading' = heading
            /\ battery_level' = battery_level
            /\ sound_level' = sound_level ]_vars

\* C23: every cursor stays in [0, windowSize); an insert for beacon i writes
\* the value at the cursor held before it, advances the cursor by one modulo
\* windowSize, sets the full flag exactly when the cursor wraps to 0 (the flag
\* is never cleared) and leaves the other slots and the other beacons alone.
C23_RingBufferInsert ==
    [][ \A i \in Beacons :
          /\ rssiIndexes[i] \in 0 .. (windowSize - 1)
          /\ rssiIndexes'[i] \in 0 .. (windowSize - 1)
          /\ buffersFilled[i] => buffersFilled'[i]
          /\ Len(samples'[i]) = Len(samples[i]) + 1 =>
                /\ rssiBuffers'[i][rssiIndexes[i]] = samples'[i][Len(samples'[i])]
                /\ \A k \in 0 .. (windowSize - 1) :
                      k # rssiIndexes[i] => rssiBuffers'[i][k] = rssiBuffers[i][k]
                /\ rssiIndexes'[i] = (rssiIndexes[i] + 1) % windowSize
                /\ buffersFilled'[i] <=> (buffersFilled[i] \/ rssiIndexes'[i] = 0)
                /\ \A j \in Beacons \ {i} :
                      /\ rssiBuffers'[j] = rssiBuffers[j]
                      /\ rssiIndexes'[j] = rssiIndexes[j]
                      /\ buffersFilled'[j] = buffersFilled[j]
          /\ samples'[i] = samples[i] =>
                /\ rssiBuffers'[i] = rssiBuffers[i]
                /\ rssiIndexes'[i] = rssiIndexes[i]
                /\ buffersFilled'[i] = buffersFilled[i] ]_vars

C23_Witness ==
    \E i \in Beacons :
        /\ Len(samples[i]) = windowSize + 1
        /\ rssiIndexes[i] = 1 /\ buffersFilled[i]
        /\ rssiBuffers[i][0] = samples[i][windowSize + 1]
        /\ rssiBuffers[i][0] # rssiBuffers[i][1]
        /\ \E j \in Beacons : Len(samples[j]) = 1 /\ ~buffersFilled[j]

\* 0.4 * solved + 0.6 * previous, and whether the fixed-point value is exact
Blend(solved, previous) == (4 * solved + 6 * previous) \div 10

BlendExact(solved, previous) == (4 * solved + 6 * previous) % 10 = 0

\* C24: the first solve makes the solved position the smoothed position as it
\* is; every later solve makes it ALPHA * solved + (1 - ALPHA) * previous.
C24_BootstrapThenBlend ==
    [][ /\ (args.op = "none" /\ args'.op = "smoothing") =>
              /\ smoothedX' = args'.start[1]
              /\ smoothedY' = args'.start[2]
        /\ (args.op = "smoothing" /\ args'.n = args.n + 1) =>
              /\ smoothedX' = Blend(args.p[1], smoothedX)
              /\ smoothedY' = Blend(args.p[2], smoothedY)
              /\ args'.n <= 12 =>
                    /\ BlendExact(args.p[1], smoothedX)
                    /\ BlendExact(args.p[2], smoothedY) ]_vars

C24_Witness ==
    /\ args.op = "smoothing" /\ args.n = 2
    /\ args.start[1] - args.p[1] = SmoothUnit
    /\ smoothedX - args.p[1] = 87890625

\* C25: a call of updateLocalisation whose gate passes updates the smoothed
\* position from the solve and hands it to the packet encoder whatever the
\* confidence is; the threshold 0.5 decides only whether it is reported.
C25_LowConfidenceStillUpdates ==
    [][ (log' # << >> /\ log'[1] = "updateLocalisation"
            /\ "trilateration" \in Events(log')) =>
            /\ smoothedX' = (IF isnan(smoothedX) \/ isnan(smoothedY) THEN result'.x
                             ELSE Blend(result'.x, smoothedX))
            /\ smoothedY' = (IF isnan(smoothedX) \/ isnan(smoothedY) THEN result'.y
                             ELSE Blend(result'.y, smoothedY))
            /\ pos_x' = U8(map(CDiv(smoothedX', 10), -2, 2, 0, 255))
            /\ pos_y' = U8(map(CDiv(smoothedY', 10), -2, 2, 0, 255))
            /\ ("report" \in Events(log')) <=> (2 * result'.confidence >= maxResidual) ]_vars

C25_Witness ==
    /\ log = << "updateLocalisation", "trilateration" >>
    /\ 2 * result.confidence < maxResidual
    /\ smoothedX = result.x /\ smoothedY = result.y
    /\ pos_x = 63 /\ pos_y = 127

\* what a receiver decodes from a position byte with the inverse linear map,
\* in 1/255 m, and whether that lies inside POSITION_RANGE
Decode255(b, range) == range[1] * 255 + b * (range[2] - range[1])

DecodesAsPosition(b, range) ==
    /\ b \in 0 .. 255
    /\ Decode255(b, range) >= range[1] * 255
    /\ Decode255(b, range) <= range[2] * 255

\* C26: while no solve has succeeded (the smoothed position is still NaN), no
\* advertised packet carries position bytes that decode as a valid position.
C26_NoFixNotAdvertisedAsPosition ==
    (bleAdvertising /\ advData # << >> /\ isnan(smoothedX) /\ isnan(smoothedY)) =>
        ~(/\ DecodesAsPosition(advData[3], POSITION_RANGE[1])
          /\ DecodesAsPosition(advData[4], POSITION_RANGE[2]))

\* C27: a capture starts only when none is running and at least SAMPLE_MILLIS
\* after the start of the previous one; a call of updateSoundLevel made before
\* the period has elapsed leaves the motors, the microphone and the sound
\* level as they are.
C27_SoundPeriodGate ==
    [][ /\ lastSample' # lastSample =>
              /\ ~U32Less(U32Sub(lastSample', lastSample), SAMPLE_MILLIS)
              /\ ~micOn /\ pc = "loop"
        /\ micOn' /\ ~micOn => lastSample' # lastSample
        /\ (log' # log /\ log' = << "updateSoundLevel" >>) =>
              /\ U32Less(U32Sub(now, lastSample), SAMPLE_MILLIS)
              /\ pins' = pins /\ leftState' = leftState /\ rightState' = rightState
              /\ micOn' = micOn /\ record_ready' = record_ready
              /\ sound_level' = sound_level
              /\ lastSample' = lastSample ]_vars

C27_Witness ==
    /\ micOn
    /\ lastSample >= 2 * SAMPLE_MILLIS
    /\ sound_level = 255
    /\ pause.pre = << TRUE, FALSE >>

\* C28: updateSoundLevel returns whatever the microphone does: the wait never
\* lasts longer than the timeout plus one pass of the loop, every capture that
\* started is left again, and outside a capture the microphone is paused.
C28_SoundAlwaysReturns ==
    /\ [](pc = "loop" => ~micOn)
    /\ [](pc = "wait" => ~U32Less(501, U32Sub(now, startTime)))
    /\ (pc = "wait") ~> (pc = "loop")

C28_Witness ==
    /\ pc = "loop" /\ ~micOn
    /\ ~record_ready
    /\ "Measurement timed out" \in Events(log)
    /\ idx = 0

\* the sum of the absolute values of the samples of a buffer, and their number
RECURSIVE Amplitudes(_)
Amplitudes(buf) ==
    IF buf = << >> THEN 0
    ELSE Abs(Head(buf)[1]) * Head(buf)[2] + Amplitudes(Tail(buf))

RECURSIVE Samples(_)
Samples(buf) ==
    IF buf = << >> THEN 0 ELSE Head(buf)[2] + Samples(Tail(buf))

\* C29: for every buffer of SAMPLES 16-bit samples the sound level is the
\* mean of the absolute values of the samples, cut to 0..255; the accumulator
\* does not overflow.
C29_SoundLevelIsMeanAmplitude ==
    args.op = "average" =>
        /\ Samples(args.buf) = SAMPLES
        /\ LET mean == Amplitudes(args.buf) \div SAMPLES
           IN  result = (IF mean > 255 THEN 255 ELSE mean)
        /\ ~soundSum([sum |-> 0, overflow |-> FALSE], args.buf).overflow

C29_Witness ==
    /\ args.op = "average"
    /\ args.buf = << << -255, 799 >>, << 256, 1 >> >>
    /\ result = 255

\* C30: a capture that timed out leaves nothing behind: when updateSoundLevel
\* has returned through the timeout, the write index of the callback is back
\* at the start of recording_buf and the ready flag is clear, so that the next
\* capture starts from an empty buffer.
C30_TimedOutCaptureDiscarded ==
    (pc = "loop" /\ "Measurement timed out" \in Events(log)) =>
        (idx = 0 /\ ~record_ready)

\* C31: after either calibration routine every offset and scale is finite,
\* and an axis whose extrema coincide has scale 1.
C31_CalibrationFinite ==
    /\ args.op = "calibrate" =>
          \A k \in 1 .. 3 :
              /\ isfinite(magOffset[k]) /\ isfinite(magScale[k])
              /\ (\A i, j \in 1 .. Len(args.sweep) :
                      args.sweep[i][k] = args.sweep[j][k])
                    => magScale[k] = Frac(1, 1)
    /\ args.op = "calibrateMagnetometer" =>
          \A k \in 1 .. 3 :
              /\ isfinite(calibData.offset[k]) /\ isfinite(calibData.scale[k])
              /\ (\A i, j \in 1 .. Len(args.sweep) :
                      args.sweep[i][k] = args.sweep[j][k])
                    => calibData.scale[k] = Frac(1, 1)

\* C32: with calibrate() never run, readHeading reports the heading of the
\* raw axes: atan2 of the raw sample plus the declination, brought to 0..360.
C32_UncalibratedHeadingIsRaw ==
    args.op = "readHeading" =>
        /\ magOffset = [k \in 1 .. 3 |-> Frac(0, 1)]
        /\ magScale = [k \in 1 .. 3 |-> Frac(1, 1)]
        /\ result \in { readHeading(a) :
                           a \in atan2(Frac(args.m[2], 1), Frac(args.m[1], 1)) }

\* the test of updateLocomotion() at clock value t
ActionDue(t, pm, iv) == ~U32Less(U32Sub(t, pm), iv)

\* C33: a handler that calls stopMotors or resumeMotors leaves previousMillis
\* and interval as they are, so that the next action of the walk is due at the
\* same clock value as before.
C33_PauseKeepsTimer ==
    [][ (log' # log /\ Events(log') \cap {"stopMotors", "resumeMotors"} # {}) =>
            /\ previousMillis' = previousMillis
            /\ interval' = interval
            /\ \A d \in {0, minWalkTime, maxWalkTime} :
                   ActionDue(now' + d, previousMillis', interval')
                       = ActionDue(now' + d, previousMillis, interval) ]_vars

C33_Witness ==
    /\ Resumed
    /\ previousMillis > 0
    /\ ActionDue(now, previousMillis, interval)
    /\ ~ActionDue(lastSample, previousMillis, interval)

\* a call of updateLocomotion() by loop()
LocomotionStep ==
    /\ pc = "loop" /\ pc' = "loop" /\ now' = now
    /\ log' # << >> /\ log'[1] = "updateLocomotion"

\* C34: updateLocomotion takes an action exactly when at least `interval` ms
\* have passed since the previous one, and then restarts the timer and sets
\* the outputs to forward, left turn or right turn, never both off; otherwise
\* it leaves outputs, previousMillis and interval as they are.
C34_ActionOnlyWhenDue ==
    [][ LocomotionStep =>
            IF ActionDue(now, previousMillis, interval)
            THEN /\ previousMillis' = now
                 /\ << pins'[motorRight], pins'[motorLeft] >> \in
                        { << TRUE, TRUE >>, << TRUE, FALSE >>, << FALSE, TRUE >> }
                 /\ Len(log') = 2
                 /\ log'[2] = "moveForward" <=>
                        << pins'[motorRight], pins'[motorLeft] >> = << TRUE, TRUE >>
                 /\ log'[2] = "turnLeft" <=>
                        << pins'[motorRight], pins'[motorLeft] >> = << TRUE, FALSE >>
                 /\ interval' >= minWalkTime
            ELSE /\ pins' = pins
                 /\ previousMillis' = previousMillis
                 /\ interval' = interval
                 /\ Len(log') = 1 ]_vars

C34_Witness ==
    /\ log = << "updateLocomotion", "turnRight" >>
    /\ previousMillis = now
    /\ now >= 2 * minWalkTime
    /\ Outputs(World) = << FALSE, TRUE >>

\* C35: with lastSwap and the clock taken modulo 2^32, a call of
\* swapClientServer() flips the role exactly when at least SWAP_INTERVAL has
\* passed since the previous flip, also when the clock wraps in between.
C35_DwellModulo ==
    [][ (log' # log /\ log'[1] = "swapClientServer") =>
            ((scanning' # scanning /\ lastSwap' = now)
                <=> ~U32Less(U32Sub(now, lastSwap), SWAP_INTERVAL)) ]_vars

-----------------------------------------------------------------------------
(* Dashboard hook: message queue *)

\* C36: the pending message queue never holds more than MAX_QUEUE_SIZE
\* messages, and a message dropped on overflow is the oldest one of a full
\* queue.
C36_QueueBounded ==
    /\ [](Len(hook.messageQueue) <= MAX_QUEUE_SIZE)
    /\ [][ hook'.dropped # hook.dropped =>
               /\ Len(hook.messageQueue) = MAX_QUEUE_SIZE
               /\ hook'.dropped = Head(hook.messageQueue) ]_vars

\* a message arrived at a full queue: the oldest was dropped, the new one is
\* the last of the queue, which is full again
C36_Witness ==
    /\ hook.dropped # NoMessage
    /\ Len(hook.messageQueue) = MAX_QUEUE_SIZE
    /\ hook.messageQueue[MAX_QUEUE_SIZE] = hook.arrived

\* the last two deliveries are in arrival order and throttleMs or more apart
DeliveriesOrderedAndSpaced ==
    hook.delivered[1] # NoDelivery =>
        /\ hook.delivered[1][1] < hook.delivered[2][1]
        /\ hook.delivered[2][2] - hook.delivered[1][2] >= throttleMs

\* C37: at most one processMessageQueue timer is pending at any time;
\* messages are delivered to lastMessage in arrival order, none twice, and
\* two deliveries are at least throttleMs apart.
C37_SingleTimerOrderedDelivery ==
    /\ Len(hook.queueTimers) <= 1
    /\ DeliveriesOrderedAndSpaced

-----------------------------------------------------------------------------
(* Dashboard hook: connection *)

\* C38: once a close with a code other than 1000 has found fewer than
\* reconnectAttempts reconnections made and the component mounted, a new
\* WebSocket is eventually constructed (unless the user disconnects or the
\* component unmounts first); and the reconnect timer never makes more than
\* reconnectAttempts connections between two opens.
C38_ReconnectsEventually ==
    /\ hook.owed ~> ~hook.owed
    /\ [](hook.automatic <= reconnectAttempts)

\* C39: disconnect() leaves no reconnect timer pending, and from then until
\* the user calls connect() no timer is pending and no WebSocket is
\* constructed.
C39_DisconnectStopsReconnection ==
    [][ hook'.disconnected =>
            /\ hook'.reconnectTimers = {}
            /\ hook.disconnected => hook'.created = hook.created ]_vars

=============================================================================
